---- MODULE Spec2Model ----
(***************************************************************************)
(* Content migration pipeline of the Middleton Grange CMS: the media       *)
(* migrator (migration/lib/media-migrator.js) and the orchestrator         *)
(* (migration/migrate.js), as state machines.                              *)
(*                                                                         *)
(* Strings are sequences of one-character strings, so that substring       *)
(* replacement, file-name sanitising and slug generation are computed and  *)
(* not assumed.  "h" stands for the scheme prefix "http", "i" for the      *)
(* directory "images", "g" for the host "storage.googleapis.com/<bucket>", *)
(* "m" for the directory "media" and "y" for the "<year>/<month>" part.    *)
(***************************************************************************)
EXTENDS Integers, Sequences, FiniteSets, TLC

(***************************************************************************)
(* Bounds of the model.                                                    *)
(***************************************************************************)
MaxAttachments == 3

\* the write of a preview file that rejects is one of the first MaxFailedWrite
MaxFailedWrite == 4

(***************************************************************************)
(* Program constants.                                                      *)
(***************************************************************************)
DefaultConcurrency == 5

maxBatchSize == 500

(***************************************************************************)
(* Characters and strings.                                                 *)
(***************************************************************************)
UpperChars == {"A", "B", "M"}

LowerChars == {"a", "b", "e", "f", "g", "h", "i", "m", "n", "p", "s", "u", "w",
               "x", "y"}

DigitChars == {"0", "1", "2", "3", "4", "5", "6", "7", "8", "9"}

toLowerCase(c) ==
    CASE c = "A" -> "a"
      [] c = "B" -> "b"
      [] c = "M" -> "m"
      [] OTHER -> c

MapStr(F(_), s) == [k \in 1..Len(s) |-> F(s[k])]

\* s.replace(/-+/g, '-'): every run of hyphens becomes one hyphen
RECURSIVE CollapseHyphens(_)
CollapseHyphens(s) ==
    IF Len(s) < 2 THEN s
    ELSE IF s[1] = "-" /\ s[2] = "-" THEN CollapseHyphens(Tail(s))
    ELSE <<s[1]>> \o CollapseHyphens(Tail(s))

\* the index of the last "/" of s, 0 when there is none
LastSlash(s) ==
    LET at == {k \in 1..Len(s) : s[k] = "/"}
    IN  IF at = {} THEN 0 ELSE CHOOSE k \in at : \A j \in at : j <= k

Range(s) == {s[k] : k \in 1..Len(s)}

\* s.startsWith(p)
startsWith(s, p) == Len(s) >= Len(p) /\ SubSeq(s, 1, Len(p)) = p

(***************************************************************************)
(* WordPressParser.extractFilename: the text after the last "/", or "".    *)
(***************************************************************************)
parserExtractFilename(url) ==
    IF url = <<>> THEN <<>> ELSE SubSeq(url, LastSlash(url) + 1, Len(url))

(***************************************************************************)
(* MediaMigrator helpers.                                                  *)
(***************************************************************************)
\* MediaMigrator.extractFilename: last path segment without its query,
\* or file-<Date.now()> when that is empty
extractFilename(url, now) ==
    LET last == SubSeq(url, LastSlash(url) + 1, Len(url))
        q == {k \in 1..Len(last) : last[k] = "?"}
        cut == IF q = {} THEN last
               ELSE SubSeq(last, 1, (CHOOSE k \in q : \A j \in q : k <= j) - 1)
    IN  IF cut = <<>> THEN <<"f", "-", now>> ELSE cut

sanitizeFilename(filename) ==
    MapStr(toLowerCase,
           CollapseHyphens(MapStr(LAMBDA c :
               IF c \in UpperChars \cup LowerChars \cup DigitChars \cup {".", "-"}
               THEN c ELSE "-", filename)))

\* path.join(downloadDir, sanitizeFilename(filename || extractFilename(url))):
\* the download directory is the same for every attachment, the local path is
\* identified by the file name in it
localPathOf(a, now) ==
    sanitizeFilename(IF a.filename # <<>> THEN a.filename
                     ELSE extractFilename(a.url, now))

\* `/images/${path.basename(localPath)}`
localUrl(localPath) == <<"/", "i", "/">> \o localPath

\* uploadToStorage's result: .../<bucket>/media/<year>/<month>/<filename>
uploadedUrl(localPath) == <<"h", "/", "g", "/", "m", "/", "y", "/">> \o localPath

\* getStorageUrl: .../<bucket>/media/<filename>
getStorageUrl(localPath) == <<"h", "/", "g", "/", "m", "/">> \o localPath

chunkOffByOne(array, size) ==
    [k \in 1..((Len(array) + size) \div (size + 1)) |->
        SubSeq(array, (k - 1) * (size + 1) + 1,
               IF k * (size + 1) < Len(array) THEN k * (size + 1) ELSE Len(array))]

\* MediaMigrator.chunk: consecutive slices of `size` elements
chunk(array, size) ==
    [k \in 1..((Len(array) + size - 1) \div size) |->
        SubSeq(array, (k - 1) * size + 1,
               IF k * size < Len(array) THEN k * size ELSE Len(array))]

\* Map.prototype.set on an insertion-ordered map, kept as a sequence of
\* <<key, value>>: an existing key keeps its place and gets the new value
MapSet(m, key, value) ==
    IF \E k \in 1..Len(m) : m[k][1] = key
    THEN [k \in 1..Len(m) |-> IF m[k][1] = key THEN <<key, value>> ELSE m[k]]
    ELSE Append(m, <<key, value>>)

MapKeys(m) == {m[k][1] : k \in 1..Len(m)}

MapGet(m, key) == (CHOOSE k \in 1..Len(m) : m[k][1] = key)

MapValue(m, key) == m[MapGet(m, key)][2]

setUrlMapUrlOnly(m, a, newUrl) == MapSet(m, a.url, newUrl)

\* this.urlMap.set(url, newUrl); this.urlMap.set(id, newUrl)
setUrlMap(m, a, newUrl) == MapSet(MapSet(m, a.url, newUrl), a.id, newUrl)

catchNoCount(st, a, err) ==
    [st EXCEPT !.errors = Append(@, [url |-> a.url, error |-> err])]

\* the catch block of processAttachment
catch(st, a, err) ==
    [st EXCEPT !.failed = @ + 1,
               !.errors = Append(@, [url |-> a.url, error |-> err])]

(***************************************************************************)
(* MediaMigrator.updateContentUrls and getNewUrl.                          *)
(***************************************************************************)
\* content.split(old).join(new): every occurrence of old, leftmost first and
\* not overlapping, becomes new
RECURSIVE SplitJoin(_, _, _)
SplitJoin(s, old, new) ==
    IF old = <<>> \/ Len(s) < Len(old) THEN s
    ELSE IF startsWith(s, old)
         THEN new \o SplitJoin(SubSeq(s, Len(old) + 1, Len(s)), old, new)
         ELSE <<s[1]>> \o SplitJoin(Tail(s), old, new)

\* typeof oldUrl === 'string' && oldUrl.startsWith('http'); a numeric id is
\* written <<"#", digit>>
IsHttpString(key) == key # <<>> /\ key[1] = "h"

RECURSIVE updateContentUrlsFrom(_, _, _)
updateContentUrlsFrom(m, k, content) ==
    IF k > Len(m) THEN content
    ELSE updateContentUrlsFrom(m, k + 1,
            IF IsHttpString(m[k][1]) THEN SplitJoin(content, m[k][1], m[k][2])
            ELSE content)

\* for (const [oldUrl, newUrl] of this.urlMap), in insertion order
updateContentUrls(m, content) == updateContentUrlsFrom(m, 1, content)

\* this.urlMap.get(idOrUrl) || this.urlMap.get(String(idOrUrl)) || null,
\* with <<>> for null; String(<<"#", d>>) is <<d>>
getNewUrl(m, idOrUrl) ==
    LET str == IF idOrUrl # <<>> /\ idOrUrl[1] = "#" THEN Tail(idOrUrl) ELSE idOrUrl
    IN  IF idOrUrl \in MapKeys(m) /\ MapValue(m, idOrUrl) # <<>>
        THEN MapValue(m, idOrUrl)
        ELSE IF str \in MapKeys(m) THEN MapValue(m, str) ELSE <<>>

(***************************************************************************)
(* ContentCleaner.clean on the page bodies of this model: text in which    *)
(* "!" is a comment node and " " is white space.  On such a fragment the   *)
(* eight steps come down to removing the comment nodes (step 1) and        *)
(* trimming the result (step 8 and the final trim).                        *)
(***************************************************************************)
RECURSIVE Filter(_, _)
Filter(s, keep) ==
    IF s = <<>> THEN <<>>
    ELSE (IF s[1] \in keep THEN <<s[1]>> ELSE <<>>) \o Filter(Tail(s), keep)

RECURSIVE TrimLeft(_)
TrimLeft(s) == IF s # <<>> /\ s[1] = " " THEN TrimLeft(Tail(s)) ELSE s

RECURSIVE TrimRight(_)
TrimRight(s) ==
    IF s # <<>> /\ s[Len(s)] = " " THEN TrimRight(SubSeq(s, 1, Len(s) - 1)) ELSE s

\* step 1: the comment nodes are removed
removeUnwantedElements(html) == Filter(html, Range(html) \ {"!"})

\* steps 1 and 8; steps 2 to 7 leave text without elements as it is
clean(html) == TrimRight(TrimLeft(removeUnwantedElements(html)))

(***************************************************************************)
(* slugify (migrate.js and WordPressParser): lower case, characters other  *)
(* than word characters, white space and hyphens removed, each run of      *)
(* white space turned into a hyphen, runs of hyphens collapsed.  The final *)
(* trim() finds no white space left.                                       *)
(***************************************************************************)
RECURSIVE SpacesToHyphen(_)
SpacesToHyphen(s) ==
    IF s = <<>> THEN <<>>
    ELSE IF s[1] = " "
         THEN <<"-">> \o SpacesToHyphen(TrimLeft(s))
         ELSE <<s[1]>> \o SpacesToHyphen(Tail(s))

slugify(text) ==
    TrimRight(TrimLeft(CollapseHyphens(SpacesToHyphen(
        Filter(MapStr(toLowerCase, text),
               LowerChars \cup DigitChars \cup {"_", " ", "-"})))))

\* item.url?.replace(/^\/|\/$/g, ''): one leading and one trailing slash go
stripSlashes(url) ==
    LET a == IF url # <<>> /\ url[1] = "/" THEN Tail(url) ELSE url
    IN  IF a # <<>> /\ a[Len(a)] = "/" THEN SubSeq(a, 1, Len(a) - 1) ELSE a

(***************************************************************************)
(* WordPressParser.buildMenuStructure, as far as the orchestrator reads    *)
(* it: one menu per distinct title of a root item (parentId "0"), in the   *)
(* order of first appearance; every root item is put into the first menu;  *)
(* the items of each menu are sorted by order, ties in source order.       *)
(***************************************************************************)
MainMenu == <<"M", "a", "i", "n", " ", "M", "e", "n", "u">>

\* insert x into the sorted sequence s behind every item whose order is not
\* above its own
RECURSIVE InsertByOrder(_, _)
InsertByOrder(s, x) ==
    IF s = <<>> THEN <<x>>
    ELSE IF s[1].order <= x.order THEN <<s[1]>> \o InsertByOrder(Tail(s), x)
    ELSE <<x>> \o s

RECURSIVE SortByOrder(_)
SortByOrder(s) ==
    IF s = <<>> THEN <<>>
    ELSE InsertByOrder(SortByOrder(SubSeq(s, 1, Len(s) - 1)), s[Len(s)])

MenuNameOf(item) == IF item.title = <<>> THEN MainMenu ELSE item.title

RECURSIVE MenuNames(_, _)
MenuNames(items, seen) ==
    IF items = <<>> THEN seen
    ELSE MenuNames(Tail(items),
            IF items[1].parentId = "0"
               /\ ~ \E k \in 1..Len(seen) : seen[k] = MenuNameOf(items[1])
            THEN Append(seen, MenuNameOf(items[1])) ELSE seen)

buildMenuStructure(menuItems) ==
    LET found == MenuNames(menuItems, <<>>)
        names == IF found = <<>> THEN <<MainMenu>> ELSE found
        roots == SelectSeq(menuItems, LAMBDA x : x.parentId = "0")
    IN  [k \in 1..Len(names) |->
            [name |-> names[k],
             items |-> IF k = 1 THEN SortByOrder(roots) ELSE <<>>]]

(***************************************************************************)
(* The orchestrator's transformations (migrate.js).                        *)
(***************************************************************************)
NoSection == <<>>

NewsSection == <<"n", "e", "w", "s">>

\* the final URL pass: mediaMigrator ? mediaMigrator.updateContentUrls(c) : c
\* the content is left as cleaned, with or without a migrator
finalContentAsCleaned(hasMigrator, m, cleaned) == cleaned

finalContent(hasMigrator, m, cleaned) ==
    IF hasMigrator THEN updateContentUrls(m, cleaned) ELSE cleaned

pageDocument(page, hasMigrator, m) ==
    [title |-> page.title, slug |-> page.slug,
     content |-> finalContent(hasMigrator, m, clean(page.content)),
     status |-> page.status, pageType |-> "standard",
     menuSection |-> NoSection, menuOrder |-> page.menuOrder]

postDocument(post, hasMigrator, m) ==
    [title |-> post.title, slug |-> post.slug,
     content |-> finalContent(hasMigrator, m, clean(post.content)),
     status |-> post.status, pageType |-> "news",
     menuSection |-> NewsSection, menuOrder |-> 0]

\* "Process pages", then "Process posts as news pages"
transform(data, hasMigrator, m) ==
    [k \in 1..Len(data.pages) |-> pageDocument(data.pages[k], hasMigrator, m)]
    \o [k \in 1..Len(data.posts) |-> postDocument(data.posts[k], hasMigrator, m)]

\* the last match instead of the first
findPageLast(docs, item) ==
    LET hits == {k \in 1..Len(docs) :
                    docs[k].slug = stripSlashes(item.url) \/ docs[k].title = item.title}
    IN  IF hits = {} THEN 0 ELSE CHOOSE k \in hits : \A j \in hits : k >= j

\* pages.find(p => p.slug === item.url?.replace(...) || p.title === item.title):
\* the index of the first match, 0 when there is none
findPage(docs, item) ==
    LET hits == {k \in 1..Len(docs) :
                    docs[k].slug = stripSlashes(item.url) \/ docs[k].title = item.title}
    IN  IF hits = {} THEN 0 ELSE CHOOSE k \in hits : \A j \in hits : k <= j

RECURSIVE assignItems(_, _, _)
assignItems(docs, name, items) ==
    IF items = <<>> THEN docs
    ELSE LET k == IF items[1].objectType = "page" THEN findPage(docs, items[1]) ELSE 0
         IN  assignItems(IF k = 0 THEN docs
                         ELSE [docs EXCEPT ![k].menuSection = slugify(name),
                                           ![k].menuOrder = items[1].order],
                         name, Tail(items))

\* "Create menu sections from WordPress menus": [sections, pages] after the
\* menus from number k on are handled
RECURSIVE menuStage(_, _, _, _)
menuStage(menus, k, sections, docs) ==
    IF k > Len(menus) THEN [sections |-> sections, pages |-> docs]
    ELSE IF Len(menus[k].items) > 0
         THEN menuStage(menus, k + 1,
                  Append(sections, [id |-> slugify(menus[k].name),
                                    title |-> menus[k].name,
                                    order |-> Len(sections)]),
                  assignItems(docs, menus[k].name, menus[k].items))
         ELSE menuStage(menus, k + 1, sections, docs)

\* the report object written to migration-report.json
reportOf(data, docs, sections, mediaStats) ==
    [stats |-> [pages |-> Len(docs), posts |-> Len(data.posts),
                attachments |-> Len(data.attachments),
                menuSections |-> Len(sections)],
     pages |-> [k \in 1..Len(docs) |->
                  [title |-> docs[k].title, slug |-> docs[k].slug,
                   status |-> docs[k].status]],
     menuSections |-> sections,
     mediaStats |-> mediaStats]

(***************************************************************************)
(* State.                                                                  *)
(***************************************************************************)
(* WordPressParser.mapStatus: statusMap[wpStatus] || 'draft'.  The lookup  *)
(* reads the own properties of the object literal and, for any other       *)
(* name, the members every object inherits from Object.prototype, which    *)
(* are functions (truthy), so they are returned as they are.               *)
(***************************************************************************)
statusMap ==
    <<<<"publish", "published">>, <<"draft", "draft">>, <<"pending", "draft">>,
      <<"private", "draft">>, <<"future", "draft">>, <<"trash", "archived">>>>

ObjectPrototype ==
    {"constructor", "toString", "valueOf", "hasOwnProperty", "isPrototypeOf",
     "propertyIsEnumerable", "toLocaleString"}

mapStatus(wpStatus) ==
    IF wpStatus \in MapKeys(statusMap) THEN MapValue(statusMap, wpStatus)
    ELSE IF wpStatus \in ObjectPrototype THEN "function"
    ELSE "draft"

(***************************************************************************)
(* ContentCleaner on the DOM.  A node is a record: an element has a tag,   *)
(* its class list (each class a sequence of tokens, a vendor prefix such   *)
(* as "elementor-" being one token), its other attributes in document      *)
(* order (name, value; a value is a sequence of tokens, a URL for href,    *)
(* src and data-src) and its child nodes; a text node has its characters   *)
(* ("x" a visible character, " " a space, "\n" a line break); a comment    *)
(* node has nothing.  A fragment (the children of the #content container,  *)
(* or the value of innerHTML) is a sequence of nodes.  href and src        *)
(* properties are read as the attribute's value ('' when absent).          *)
(***************************************************************************)
Text(v) == [tag |-> "#text", cls |-> <<>>, attrs |-> <<>>, kids |-> <<>>, v |-> v]

Comment == [tag |-> "#comment", cls |-> <<>>, attrs |-> <<>>, kids |-> <<>>, v |-> <<>>]

El(tag, cls, attrs, kids) == [tag |-> tag, cls |-> cls, attrs |-> attrs, kids |-> kids, v |-> <<>>]

IsElement(n) == n.tag \notin {"#text", "#comment"}

hasClass(n, c) == c \in Range(n.cls)

hasAttribute(n, name) == name \in MapKeys(n.attrs)

\* element.getAttribute(name), and the reflecting properties: '' when absent
getAttribute(n, name) == IF hasAttribute(n, name) THEN MapValue(n.attrs, name) ELSE <<>>

removeAttribute(attrs, name) == SelectSeq(attrs, LAMBDA kv : kv[1] # name)

\* node.textContent = text: one text node, none for the empty string
textKids(text) == IF text = <<>> THEN <<>> ELSE <<Text(text)>>

\* the nodes below a fragment, in document order
RECURSIVE descendants(_)
descendants(nodes) ==
    IF nodes = <<>> THEN <<>>
    ELSE <<Head(nodes)>> \o descendants(Head(nodes).kids) \o descendants(Tail(nodes))

RECURSIVE textContent(_)
textContent(nodes) ==
    IF nodes = <<>> THEN <<>>
    ELSE (IF Head(nodes).tag = "#text" THEN Head(nodes).v
          ELSE IF Head(nodes).tag = "#comment" THEN <<>>
          ELSE textContent(Head(nodes).kids)) \o textContent(Tail(nodes))

Whitespace == {" ", "\n"}

\* String.prototype.trim
RECURSIVE trimStart(_)
trimStart(s) == IF s # <<>> /\ s[1] \in Whitespace THEN trimStart(Tail(s)) ELSE s

RECURSIVE trimEnd(_)
trimEnd(s) ==
    IF s # <<>> /\ s[Len(s)] \in Whitespace THEN trimEnd(SubSeq(s, 1, Len(s) - 1)) ELSE s

trim(s) == trimEnd(trimStart(s))

\* element.querySelectorAll(selector) for the selectors the cleaner uses
byClass(n, c) == SelectSeq(descendants(n.kids), LAMBDA d : IsElement(d) /\ hasClass(d, c))

byTag(n, tags) == SelectSeq(descendants(n.kids), LAMBDA d : d.tag \in tags)

(***************************************************************************)
(* Step 1, removeUnwantedElements: the elements of each selector of        *)
(* elementsToRemove are removed in turn ([aria-hidden="true"]:empty last,  *)
(* on the list of the elements that match when it is queried), then the    *)
(* comment nodes.                                                          *)
(***************************************************************************)
srcMentions(n, word) == word \in Range(getAttribute(n, "src"))

elementsToRemove(n) ==
    \/ n.tag \in {"script", "style", "noscript"}
    \/ n.tag = "iframe" /\ (srcMentions(n, "facebook") \/ srcMentions(n, "twitter"))
    \/ hasClass(n, <<"elementor-", "screen-only">>)
    \/ hasClass(n, <<"screen-reader-text">>)

\* [aria-hidden="true"]:empty : no element and no text child
ariaHiddenEmpty(n) ==
    /\ IsElement(n)
    /\ getAttribute(n, "aria-hidden") = <<"true">>
    /\ \A k \in 1..Len(n.kids) : n.kids[k].tag = "#comment"

RECURSIVE removeMatching(_, _)
removeMatching(nodes, sel) ==
    IF nodes = <<>> THEN <<>>
    ELSE LET n == Head(nodes)
         IN  (IF sel = "elementsToRemove" /\ IsElement(n) /\ elementsToRemove(n) THEN <<>>
              ELSE IF sel = "ariaHiddenEmpty" /\ ariaHiddenEmpty(n) THEN <<>>
              ELSE IF sel = "comments" /\ n.tag = "#comment" THEN <<>>
              ELSE <<[n EXCEPT !.kids = removeMatching(n.kids, sel)]>>)
             \o removeMatching(Tail(nodes), sel)

removeUnwantedNodes(nodes) ==
    removeMatching(removeMatching(removeMatching(nodes, "elementsToRemove"),
                                  "ariaHiddenEmpty"), "comments")

(***************************************************************************)
(* Step 2, the widget converters.  A converter returns the fragment that   *)
(* replaces the widget, or null.                                           *)
(***************************************************************************)
null == [ok |-> FALSE, nodes |-> <<>>]

converted(nodes) == [ok |-> TRUE, nodes |-> nodes]

\* newImg.src = img.getAttribute('data-src') || img.src; newImg.alt = img.alt || ''
newImg(img, lazy) ==
    El("img", <<>>,
       <<<<"src", IF getAttribute(img, "data-src") # <<>>
                  THEN getAttribute(img, "data-src") ELSE getAttribute(img, "src")>>,
         <<"alt", getAttribute(img, "alt")>>>>
       \o (IF lazy THEN <<<<"loading", <<"lazy">>>>>> ELSE <<>>),
       <<>>)

convertHeadingWidget(widget) ==
    LET heading == byClass(widget, <<"elementor-", "heading-title">>)
    IN  IF heading # <<>>
        THEN converted(<<El(heading[1].tag, <<>>, <<>>,
                            textKids(textContent(heading[1].kids)))>>)
        ELSE null

convertTextWidget(widget) ==
    LET editor == byClass(widget, <<"elementor-", "text-editor">>)
    IN  IF editor # <<>>
        THEN converted(<<El("div", <<>>, <<>>, editor[1].kids)>>)
        ELSE null

convertImageWidget(widget) ==
    LET img == byTag(widget, {"img"})
        caption == SelectSeq(descendants(widget.kids),
                             LAMBDA d : IsElement(d) /\
                                 (hasClass(d, <<"widget-", "image-caption">>) \/ d.tag = "figcaption"))
    IN  IF img # <<>>
        THEN converted(<<El("figure", <<>>, <<>>,
                <<newImg(img[1], FALSE)>>
                \o (IF caption # <<>> /\ trim(textContent(caption[1].kids)) # <<>>
                    THEN <<El("figcaption", <<>>, <<>>,
                              <<Text(trim(textContent(caption[1].kids)))>>)>>
                    ELSE <<>>))>>)
        ELSE null

convertVideoWidget(widget) ==
    LET iframe == byTag(widget, {"iframe"})
    IN  IF iframe # <<>>
        THEN converted(<<El("div", <<<<"video-embed">>>>, <<>>,
                <<El("iframe", <<>>,
                     <<<<"src", getAttribute(iframe[1], "src")>>,
                       <<"allowfullscreen", <<>>>>,
                       <<"loading", <<"lazy">>>>>>, <<>>)>>)>>)
        ELSE null

convertButtonWidget(widget) ==
    LET link == byTag(widget, {"a"})
        text == byClass(widget, <<"elementor-", "button-text">>)
    IN  IF link # <<>>
        THEN converted(<<El("a", <<<<"btn">>, <<"btn-primary">>>>,
                <<<<"href", getAttribute(link[1], "href")>>>>
                \o (IF getAttribute(link[1], "target") # <<>>
                    THEN <<<<"target", getAttribute(link[1], "target")>>>> ELSE <<>>),
                textKids(textContent(IF text # <<>> THEN text[1].kids ELSE link[1].kids)))>>)
        ELSE null

iconListItem(item) ==
    LET text == byClass(item, <<"elementor-", "icon-list-text">>)
        link == byTag(item, {"a"})
    IN  El("li", <<>>, <<>>,
           IF link # <<>>
           THEN <<El("a", <<>>, <<<<"href", getAttribute(link[1], "href")>>>>,
                     textKids(textContent(IF text # <<>> THEN text[1].kids
                                          ELSE link[1].kids)))>>
           ELSE IF text # <<>> THEN textKids(textContent(text[1].kids))
           ELSE <<>>)

convertIconListWidget(widget) ==
    LET items == byClass(widget, <<"elementor-", "icon-list-item">>)
    IN  IF items # <<>>
        THEN converted(<<El("ul", <<>>, <<>>,
                            [k \in 1..Len(items) |-> iconListItem(items[k])])>>)
        ELSE null

accordionItem(item) ==
    LET title == byClass(item, <<"elementor-", "accordion-title">>)
        contentEl == byClass(item, <<"elementor-", "accordion-content">>)
    IN  El("details", <<>>, <<>>,
           <<El("summary", <<>>, <<>>,
                IF title # <<>> THEN textKids(textContent(title[1].kids)) ELSE <<>>),
             El("div", <<>>, <<>>, IF contentEl # <<>> THEN contentEl[1].kids ELSE <<>>)>>)

\* returns a DocumentFragment: the widget is replaced by the <details> elements
convertAccordionWidget(widget) ==
    LET items == byClass(widget, <<"elementor-", "accordion-item">>)
    IN  IF items # <<>>
        THEN converted([k \in 1..Len(items) |-> accordionItem(items[k])])
        ELSE null

convertTabsWidget(widget) ==
    LET tabs == byClass(widget, <<"elementor-", "tab-title">>)
        contents == byClass(widget, <<"elementor-", "tab-content">>)
    IN  IF tabs # <<>>
        THEN converted(<<El("div", <<<<"tabs-content">>>>, <<>>,
                [k \in 1..Len(tabs) |->
                    El("section", <<>>, <<>>,
                       <<El("h3", <<>>, <<>>, textKids(textContent(tabs[k].kids)))>>
                       \o (IF k <= Len(contents)
                           THEN <<El("div", <<>>, <<>>, contents[k].kids)>>
                           ELSE <<>>))])>>)
        ELSE null

convertGalleryWidget(widget) ==
    LET images == byTag(widget, {"img"})
    IN  IF images # <<>>
        THEN converted(<<El("div", <<<<"image-gallery">>>>, <<>>,
                [k \in 1..Len(images) |->
                    El("figure", <<>>, <<>>, <<newImg(images[k], TRUE)>>)])>>)
        ELSE null

\* always returns the <article>, whatever the widget holds
convertImageBoxWidget(widget) ==
    LET img == byTag(widget, {"img"})
        title == byClass(widget, <<"elementor-", "image-box-title">>)
        description == byClass(widget, <<"elementor-", "image-box-description">>)
    IN  converted(<<El("article", <<<<"image-box">>>>, <<>>,
            (IF img # <<>>
             THEN <<El("figure", <<>>, <<>>, <<newImg(img[1], FALSE)>>)>> ELSE <<>>)
            \o (IF title # <<>>
                THEN <<El("h3", <<>>, <<>>, textKids(textContent(title[1].kids)))>>
                ELSE <<>>)
            \o (IF description # <<>>
                THEN <<El("p", <<>>, <<>>, textKids(textContent(description[1].kids)))>>
                ELSE <<>>))>>)

\* this.widgetConverters[type](widget): the ten own properties of the
\* object literal, and the members it inherits from Object.prototype
\* (toString and valueOf give a truthy non-node, which replaceWith inserts
\* as the text "[object Object]"; constructor gives the widget itself)
widgetConverters(type, widget) ==
    CASE type = "heading" -> convertHeadingWidget(widget)
      [] type = "text-editor" -> convertTextWidget(widget)
      [] type = "image" -> convertImageWidget(widget)
      [] type = "video" -> convertVideoWidget(widget)
      [] type = "button" -> convertButtonWidget(widget)
      [] type = "icon-list" -> convertIconListWidget(widget)
      [] type = "accordion" -> convertAccordionWidget(widget)
      [] type = "tabs" -> convertTabsWidget(widget)
      [] type = "image-gallery" -> convertGalleryWidget(widget)
      [] type = "image-box" -> convertImageBoxWidget(widget)
      [] type \in {"toString", "valueOf"} -> converted(<<Text(<<"[object Object]">>)>>)
      [] OTHER -> null

\* widgetType.split('.')[0], null for an empty attribute
widgetTypeOf(n) ==
    LET widgetType == getAttribute(n, "data-widget_type")
    IN  IF widgetType = <<>> \/ widgetType[1] = "." THEN "" ELSE widgetType[1]

\* the widgets are visited in document order; a widget inside a replaced
\* widget is converted on the detached subtree, which changes nothing
RECURSIVE convertWidgets(_)
convertWidgets(nodes) ==
    IF nodes = <<>> THEN <<>>
    ELSE LET n == Head(nodes)
             result == IF IsElement(n) /\ hasAttribute(n, "data-widget_type")
                          /\ widgetTypeOf(n) # ""
                       THEN widgetConverters(widgetTypeOf(n), n) ELSE null
         IN  (IF result.ok THEN result.nodes
              ELSE <<[n EXCEPT !.kids = convertWidgets(n.kids)]>>)
             \o convertWidgets(Tail(nodes))

\* unwrapElement on every .elementor-section, .elementor-column and
\* .elementor-widget-wrap
RECURSIVE unwrapSections(_)
unwrapSections(nodes) ==
    IF nodes = <<>> THEN <<>>
    ELSE LET n == Head(nodes)
         IN  (IF IsElement(n) /\ (\/ hasClass(n, <<"elementor-", "section">>)
                                  \/ hasClass(n, <<"elementor-", "column">>)
                                  \/ hasClass(n, <<"elementor-", "widget-wrap">>))
              THEN unwrapSections(n.kids)
              ELSE <<[n EXCEPT !.kids = unwrapSections(n.kids)]>>)
             \o unwrapSections(Tail(nodes))

convertElementorWidgets(nodes) == unwrapSections(convertWidgets(nodes))

(***************************************************************************)
(* Steps 3 to 7.                                                           *)
(***************************************************************************)
\* options.keepClasses.some(pattern => cls === pattern), exact names only
hasKeeperClass(opt, n) == \E c \in Range(n.cls) : c \in opt.keepClasses

blockElements ==
    {"div", "p", "h1", "h2", "h3", "h4", "h5", "h6", "ul", "ol", "table", "figure",
     "article", "section"}

\* element.children
children(n) == SelectSeq(n.kids, IsElement)

\* every <div> of the list taken at the start, parents before children: a
\* div whose only element child is a block element is replaced by its child
\* nodes (the test reads the children the div has in the input, which the
\* unwrapping of other divs never changes in number)
RECURSIVE unwrapDivs(_, _)
unwrapDivs(opt, nodes) ==
    IF nodes = <<>> THEN <<>>
    ELSE LET n == Head(nodes)
         IN  (IF /\ n.tag = "div"
                 /\ ~hasKeeperClass(opt, n)
                 /\ Len(children(n)) = 1
                 /\ children(n)[1].tag \in blockElements
              THEN unwrapDivs(opt, n.kids)
              ELSE <<[n EXCEPT !.kids = unwrapDivs(opt, n.kids)]>>)
             \o unwrapDivs(opt, Tail(nodes))

\* the first token of the class names the patterns of classesToRemove match
classesToRemove ==
    {"wp-", "elementor-", "e-", "attachment-", "size-", "alignleft", "alignright",
     "aligncenter", "alignnone", "gallery-", "widget-", "menu-", "post-", "page-",
     "entry-", "hentry", "clearfix", "has-", "is-", "block-"}

\* the first token of the ids /^(elementor-|wp-|post-|page-|widget-|menu-)/ matches
generatedIds == {"elementor-", "wp-", "post-", "page-", "widget-", "menu-"}

\* the attribute names of the model that start with "data-"
dataAttributes == {"data-widget_type", "data-id", "data-src"}

cleanElement(opt, n) ==
    [n EXCEPT
        !.cls = SelectSeq(@, LAMBDA c : c[1] \notin classesToRemove \/ c \in opt.keepClasses),
        !.attrs = SelectSeq(@, LAMBDA kv :
                      /\ ~(kv[1] \in dataAttributes /\ kv[1] # "data-src")
                      /\ kv[1] # "style"
                      /\ ~(kv[1] = "id" /\ kv[2] # <<>> /\ kv[2][1] \in generatedIds))]

RECURSIVE cleanAttributes(_, _)
cleanAttributes(opt, nodes) ==
    [k \in 1..Len(nodes) |->
        IF IsElement(nodes[k])
        THEN [cleanElement(opt, nodes[k]) EXCEPT !.kids = cleanAttributes(opt, nodes[k].kids)]
        ELSE nodes[k]]

convertUrl(opt, url) ==
    IF url = <<>> THEN url
    ELSE IF startsWith(url, opt.baseUrl)
    THEN opt.newBaseUrl \o SubSeq(url, Len(opt.baseUrl) + 1, Len(url))
    ELSE IF url[1] = "/" /\ ~startsWith(url, <<"/", "/">>)
    THEN opt.newBaseUrl \o url
    ELSE url

\* a[href] and img[src] (with its data-src) only
fixElementUrls(opt, n) ==
    IF n.tag = "a" /\ hasAttribute(n, "href")
    THEN [n EXCEPT !.attrs = MapSet(@, "href", convertUrl(opt, getAttribute(n, "href")))]
    ELSE IF n.tag = "img" /\ hasAttribute(n, "src")
    THEN [n EXCEPT !.attrs =
            LET a == MapSet(@, "src", convertUrl(opt, getAttribute(n, "src")))
            IN  IF getAttribute(n, "data-src") # <<>>
                THEN MapSet(a, "data-src", convertUrl(opt, getAttribute(n, "data-src")))
                ELSE a]
    ELSE n

RECURSIVE fixAllUrls(_, _)
fixAllUrls(opt, nodes) ==
    [k \in 1..Len(nodes) |->
        [fixElementUrls(opt, nodes[k]) EXCEPT !.kids = fixAllUrls(opt, nodes[k].kids)]]

fixUrls(opt, nodes) ==
    IF opt.baseUrl = <<>> \/ opt.newBaseUrl = <<>> THEN nodes ELSE fixAllUrls(opt, nodes)

\* if (!img.alt) img.alt = ''; img.loading = 'lazy'
RECURSIVE semanticize(_)
semanticize(nodes) ==
    [k \in 1..Len(nodes) |->
        LET n == nodes[k]
        IN  IF n.tag = "img"
            THEN [n EXCEPT !.attrs =
                    MapSet(IF getAttribute(n, "alt") = <<>> THEN MapSet(@, "alt", <<>>) ELSE @,
                           "loading", <<"lazy">>)]
            ELSE [n EXCEPT !.kids = semanticize(n.kids)]]

emptyTags == {"p", "div", "span", "li", "ul", "ol", "section", "article"}

embeddedMedia == {"img", "iframe", "video", "audio", "canvas", "svg"}

\* the test without the look for embedded media
isEmptyElementTextOnly(n) ==
    /\ n.tag \in emptyTags
    /\ trim(textContent(n.kids)) = <<>>

isEmptyElement(n) ==
    /\ n.tag \in emptyTags
    /\ trim(textContent(n.kids)) = <<>>
    /\ byTag(n, embeddedMedia) = <<>>

\* the loop ends when nothing is removed: every element of emptyTags with
\* blank text and no media below it is gone (removing one never makes
\* another element blank or media-free that was not already)
RECURSIVE removeEmptyElements(_)
removeEmptyElements(nodes) ==
    IF nodes = <<>> THEN <<>>
    ELSE (IF isEmptyElement(Head(nodes)) THEN <<>>
          ELSE <<[Head(nodes) EXCEPT !.kids = removeEmptyElements(Head(nodes).kids)]>>)
         \o removeEmptyElements(Tail(nodes))

(***************************************************************************)
(* Step 8 and the string clean returns.  container.innerHTML joins         *)
(* adjacent text nodes; cleanWhitespace turns the white space between two  *)
(* tags into one line break and takes the white space off both ends of     *)
(* the string (text of the inputs holds no line break, so no other line    *)
(* ends in or starts with white space).  The fragment this yields stands   *)
(* for the returned string: parsing it back gives the same fragment.       *)
(***************************************************************************)
RECURSIVE innerHTML(_)
innerHTML(nodes) ==
    IF nodes = <<>> THEN <<>>
    ELSE LET n == Head(nodes)
             rest == innerHTML(Tail(nodes))
         IN  IF n.tag = "#text"
             THEN IF rest # <<>> /\ rest[1].tag = "#text"
                  THEN <<Text(n.v \o rest[1].v)>> \o Tail(rest)
                  ELSE <<n>> \o rest
             ELSE <<[n EXCEPT !.kids = innerHTML(n.kids)]>> \o rest

RECURSIVE betweenTags(_)
betweenTags(nodes) ==
    [k \in 1..Len(nodes) |->
        LET n == nodes[k]
        IN  IF n.tag = "#text"
            THEN IF trim(n.v) = <<>> THEN Text(<<"\n">>) ELSE n
            ELSE [n EXCEPT !.kids = betweenTags(n.kids)]]

trimFirst(nodes) ==
    IF nodes # <<>> /\ nodes[1].tag = "#text"
    THEN textKids(trimStart(nodes[1].v)) \o Tail(nodes)
    ELSE nodes

trimLast(nodes) ==
    IF nodes # <<>> /\ nodes[Len(nodes)].tag = "#text"
    THEN SubSeq(nodes, 1, Len(nodes) - 1) \o textKids(trimEnd(nodes[Len(nodes)].v))
    ELSE nodes

cleanWhitespace(nodes) == trimLast(trimFirst(betweenTags(nodes)))

\* clean(html), on the parsed fragment and to the fragment of its result
cleanContainer(opt, html) ==
    LET step1 == removeUnwantedNodes(html)
        step2 == convertElementorWidgets(step1)
        step3 == unwrapDivs(opt, step2)
        step4 == cleanAttributes(opt, step3)
        step5 == fixUrls(opt, step4)
        step6 == IF opt.semanticize THEN semanticize(step5) ELSE step5
        step7 == IF opt.removeEmpty THEN removeEmptyElements(step6) ELSE step6
    IN  cleanWhitespace(innerHTML(step7))

(***************************************************************************)
VARIABLES
    mpc,        \* MediaMigrator.migrate: "idle", "mkdir", "running", "returned", "rejected"
    mopts,      \* this.options: storageBucket, concurrency, skipExisting
    storage,    \* this.storage is set (initStorage was called with a bucket name)
    stats,      \* this.stats
    urlMap,     \* this.urlMap, in insertion order
    atts,       \* the attachments handed to migrate()
    task,       \* per attachment: where its processAttachment call stands
    cur,        \* the number of the chunk whose Promise.all is awaited
    disk,       \* the files of the download directory
    net,        \* the requests issued: get (downloads), put (uploads), by attachment
    pc,         \* migrate(options) of migrate.js: the await it stands at
    argv,       \* the command line: dryRun, downloadMedia, uploadMedia
    env,        \* the input file and the credentials the run finds
    wpData,     \* what parser.parse(inputFile) returns for the input file
    dryRun,     \* options.dryRun
    fb,         \* firebase-admin: app (initializeApp succeeded), db (db is not null)
    mm,         \* mediaMigrator is not null
    pages,      \* the PageDocuments
    menuSections,
    out,        \* the output directory: report, previews (slug -> content)
    store,      \* the document store: open batch, committed batches, commit calls
    pos,        \* the position of the running loop (previews, page and media writes)
    exit,       \* "running", "exit0", "exit1"
    call,       \* a call of a library function on its own: fn and its arguments
    ret,        \* what the successive calls returned
    first       \* a re-run of the media migration: the first run's URL map and requests

mvars == <<mpc, mopts, storage, stats, urlMap, atts, task, cur, disk, net>>

ovars == <<pc, argv, env, wpData, dryRun, fb, mm, pages, menuSections, out, store,
           pos, exit>>

cvars == <<call, ret, first>>

vars == <<mvars, ovars, cvars>>

(***************************************************************************)
(* Inputs of the model.                                                    *)
(***************************************************************************)
NoUrl == <<>>

UrlPool == {NoUrl, <<"h", "/", "a">>, <<"h", "/", "A">>, <<"h", "/", "b">>}

ClockValues == {"0", "1"}

\* the id of the k-th attachment: a number, written <<"#", digit>>
IdOf(k) == <<"#", CASE k = 1 -> "1" [] k = 2 -> "2" [] k = 3 -> "3"
                    [] k = 4 -> "4" [] OTHER -> "5">>

\* WordPressParser.parseAttachment: the fields the migration reads
parseAttachment(id, url) ==
    [id |-> id, url |-> url, filename |-> parserExtractFilename(url)]

AttachmentLists ==
    UNION {{[k \in 1..n |-> parseAttachment(IdOf(k), u[k])] : u \in [1..n -> UrlPool]}
           : n \in 0..MaxAttachments}

NewStats == [total |-> 0, downloaded |-> 0, uploaded |-> 0, skipped |-> 0,
             failed |-> 0, errors |-> <<>>]

\* new MediaMigrator(options): concurrency: options.concurrency || 5,
\* skipExisting: options.skipExisting !== false
NewOptions(bucket, concurrency, skipExisting) ==
    [storageBucket |-> bucket,
     concurrency |-> IF concurrency = 0 THEN DefaultConcurrency ELSE concurrency,
     skipExisting |-> skipExisting]

Pending(list) == [k \in 1..Len(list) |-> [st |-> "pending", path |-> <<>>, out |-> "none"]]

Indices == 1..Len(atts)

chunks == chunk([k \in 1..Len(atts) |-> k], mopts.concurrency)

InChunk(c) == IF c \in 1..Len(chunks)
              THEN {chunks[c][k] : k \in 1..Len(chunks[c])} ELSE {}

(***************************************************************************)
(* processAttachment, up to its first await: an attachment without URL is  *)
(* skipped; otherwise the local path is computed and either fileExists     *)
(* (skipExisting) or downloadFile is called.                               *)
(***************************************************************************)
NeedsClock(a) == a.url # NoUrl /\ a.filename = <<>>

Started(a, now) ==
    IF a.url = NoUrl THEN [st |-> "done", path |-> <<>>, out |-> "nourl"]
    ELSE [st |-> IF mopts.skipExisting THEN "exists" ELSE "download",
          path |-> localPathOf(a, now), out |-> "none"]

\* batch.map(attachment => this.processAttachment(attachment)) for chunk c
StartChunk(c, st) ==
    \E now \in [{k \in InChunk(c) : NeedsClock(atts[k])} -> ClockValues] :
        LET started == [k \in InChunk(c) |->
                Started(atts[k], IF NeedsClock(atts[k]) THEN now[k] ELSE "0")]
            nourl == {k \in InChunk(c) : atts[k].url = NoUrl}
        IN  /\ task' = [k \in Indices |-> IF k \in InChunk(c) THEN started[k] ELSE task[k]]
            /\ stats' = [st EXCEPT !.skipped = @ + Cardinality(nourl)]
            /\ net' = [net EXCEPT !.get = @ \cup
                         {k \in InChunk(c) : started[k].st = "download"}]
            /\ cur' = c

\* the loop over the chunks: the next chunk is started, or migrate() returns
Continue(c, st) ==
    IF c <= Len(chunks)
    THEN /\ StartChunk(c, st)
         /\ mpc' = "running"
    ELSE /\ mpc' = "returned"
         /\ stats' = st
         /\ UNCHANGED <<task, net, cur>>

\* await fs.mkdir(downloadDir) settles
MkdirSettles ==
    /\ mpc = "mkdir"
    /\ \/ Continue(1, [stats EXCEPT !.total = Len(atts)])
       \/ /\ mpc' = "rejected"
          /\ UNCHANGED <<stats, task, net, cur>>
    /\ UNCHANGED <<mopts, storage, urlMap, atts, disk>>

\* await Promise.all(...) of the current chunk resolves
ChunkResolves ==
    /\ mpc = "running"
    /\ \A k \in InChunk(cur) : task[k].st = "done"
    /\ Continue(cur + 1, stats)
    /\ UNCHANGED <<mopts, storage, urlMap, atts, disk>>

Finish(i, how) == [task EXCEPT ![i].st = "done", ![i].out = how]

\* await this.fileExists(localPath) resolves
FileExistsResolves(i) ==
    /\ mpc = "running" /\ i \in Indices /\ task[i].st = "exists"
    /\ IF task[i].path \in disk
       THEN /\ stats' = [stats EXCEPT !.skipped = @ + 1]
            /\ IF storage
               THEN /\ task' = [task EXCEPT ![i].st = "storageUrl"]
                    /\ UNCHANGED urlMap
               ELSE /\ urlMap' = setUrlMap(urlMap, atts[i], localUrl(task[i].path))
                    /\ task' = Finish(i, "existed")
            /\ UNCHANGED net
       ELSE /\ task' = [task EXCEPT ![i].st = "download"]
            /\ net' = [net EXCEPT !.get = @ \cup {i}]
            /\ UNCHANGED <<stats, urlMap>>
    /\ UNCHANGED <<mpc, mopts, storage, atts, cur, disk>>

\* await this.getStorageUrl(localPath) resolves
StorageUrlResolves(i) ==
    /\ mpc = "running" /\ i \in Indices /\ task[i].st = "storageUrl"
    /\ urlMap' = setUrlMap(urlMap, atts[i], getStorageUrl(task[i].path))
    /\ task' = Finish(i, "existed")
    /\ UNCHANGED <<mpc, mopts, storage, stats, atts, cur, disk, net>>

\* await this.downloadFile(url, localPath) resolves: status 200, file written
DownloadOk(i) ==
    /\ mpc = "running" /\ i \in Indices /\ task[i].st = "download"
    /\ disk' = disk \cup {task[i].path}
    /\ stats' = [stats EXCEPT !.downloaded = @ + 1]
    /\ IF storage
       THEN /\ task' = [task EXCEPT ![i].st = "upload"]
            /\ net' = [net EXCEPT !.put = @ \cup {i}]
            /\ UNCHANGED urlMap
       ELSE /\ urlMap' = setUrlMap(urlMap, atts[i], localUrl(task[i].path))
            /\ task' = Finish(i, "ok")
            /\ UNCHANGED net
    /\ UNCHANGED <<mpc, mopts, storage, atts, cur>>

\* downloadFile rejects: a non-200 status, a request error, a timeout, or a
\* failed fs.writeFile, which may leave the file behind
DownloadFails(i) ==
    /\ mpc = "running" /\ i \in Indices /\ task[i].st = "download"
    /\ stats' = catch(stats, atts[i], "download")
    /\ \E left \in BOOLEAN : disk' = IF left THEN disk \cup {task[i].path} ELSE disk
    /\ task' = Finish(i, "failed")
    /\ UNCHANGED <<mpc, mopts, storage, urlMap, atts, cur, net>>

\* await this.uploadToStorage(localPath, attachment) resolves
UploadOk(i) ==
    /\ mpc = "running" /\ i \in Indices /\ task[i].st = "upload"
    /\ stats' = [stats EXCEPT !.uploaded = @ + 1]
    /\ urlMap' = setUrlMap(urlMap, atts[i], uploadedUrl(task[i].path))
    /\ task' = Finish(i, "ok")
    /\ UNCHANGED <<mpc, mopts, storage, atts, cur, disk, net>>

\* uploadToStorage rejects (upload or makePublic)
UploadFails(i) ==
    /\ mpc = "running" /\ i \in Indices /\ task[i].st = "upload"
    /\ stats' = catch(stats, atts[i], "upload")
    /\ task' = Finish(i, "failed")
    /\ UNCHANGED <<mpc, mopts, storage, urlMap, atts, cur, disk, net>>

MediaStep ==
    /\ \/ MkdirSettles
       \/ ChunkResolves
       \/ \E i \in 1..Len(atts) :
             \/ FileExistsResolves(i)
             \/ StorageUrlResolves(i)
             \/ DownloadOk(i)
             \/ DownloadFails(i)
             \/ UploadOk(i)
             \/ UploadFails(i)
    /\ UNCHANGED <<ovars, cvars>>

(***************************************************************************)
(* The orchestrator: migrate(options) of migrate.js.                       *)
(***************************************************************************)
NoCall == [fn |-> "none"]

NoRun == [urlMap |-> <<>>, net |-> [get |-> {}, put |-> {}], run |-> 1]

NoData == [pages |-> <<>>, posts |-> <<>>, attachments |-> <<>>, menus |-> <<>>]

NoOutput == [report |-> <<>>, previews |-> <<>>]

EmptyStore == [open |-> <<>>, committed |-> <<>>, calls |-> 0]

Exit1 ==
    /\ pc' = "failed"
    /\ exit' = "exit1"

\* the input file is checked (no file named, or fs.access fails: exit 1)
CheckInput ==
    /\ pc = "start"
    /\ IF env.input = "ok"
       THEN pc' = "outdir" /\ UNCHANGED exit
       ELSE Exit1
    /\ UNCHANGED <<cvars, mvars, argv, env, wpData, dryRun, fb, mm, pages, menuSections,
                   out, store, pos>>

\* await fs.mkdir(options.outputDir); then initFirebase() unless dry run
MkdirOutput ==
    /\ pc = "outdir"
    /\ \/ pc' = (IF dryRun THEN "parse" ELSE "initFirebase") /\ UNCHANGED exit
       \/ Exit1
    /\ UNCHANGED <<cvars, mvars, argv, env, wpData, dryRun, fb, mm, pages, menuSections,
                   out, store, pos>>

\* db = await initFirebase(); without db the run continues as a dry run.
\* "nocreds": the service account cannot be loaded, no app is initialised;
\* "nofirestore": initializeApp succeeded and admin.firestore() threw
InitFirebase ==
    /\ pc = "initFirebase"
    /\ fb' = [app |-> env.firebase # "nocreds", db |-> env.firebase = "ok"]
    /\ dryRun' = (env.firebase # "ok")
    /\ pc' = "parse"
    /\ UNCHANGED <<cvars, mvars, argv, env, wpData, mm, pages, menuSections, out, store,
                   pos, exit>>

\* a document without rss/channel is taken as an empty export
ParseSettlesWithoutChannel ==
    /\ pc = "parse"
    /\ pc' = "mediaStage" /\ UNCHANGED exit
    /\ UNCHANGED <<cvars, mvars, argv, env, wpData, dryRun, fb, mm, pages, menuSections,
                   out, store, pos>>

\* wpData = await parser.parse(options.inputFile); no channel: it throws
ParseSettles ==
    /\ pc = "parse"
    /\ IF env.channel
       THEN pc' = "mediaStage" /\ UNCHANGED exit
       ELSE Exit1
    /\ UNCHANGED <<cvars, mvars, argv, env, wpData, dryRun, fb, mm, pages, menuSections,
                   out, store, pos>>

\* "[2/5]": with a media flag the migrator is constructed (with
\* --upload-media admin.storage().bucket().name is read, which throws when
\* no app is initialised), initStorage is called in a real upload run, and
\* migrate(wpData.attachments) is called; without one the stage is skipped
MediaStage ==
    /\ pc = "mediaStage"
    /\ IF argv.downloadMedia \/ argv.uploadMedia
       THEN IF argv.uploadMedia /\ ~fb.app
            THEN /\ Exit1
                 /\ UNCHANGED <<mvars, mm>>
            ELSE /\ mm' = TRUE
                 /\ mopts' = NewOptions(argv.uploadMedia, 0, TRUE)
                 /\ storage' = (argv.uploadMedia /\ ~dryRun)
                 /\ stats' = NewStats
                 /\ urlMap' = <<>>
                 /\ atts' = wpData.attachments
                 /\ task' = Pending(wpData.attachments)
                 /\ mpc' = "mkdir"
                 /\ pc' = "media"
                 /\ UNCHANGED <<cur, disk, net, exit>>
       ELSE /\ pc' = "clean"
            /\ UNCHANGED <<mvars, mm, exit>>
    /\ UNCHANGED <<cvars, argv, env, wpData, dryRun, fb, pages, menuSections, out, store,
                   pos>>

\* the orchestrator goes on without awaiting the migrator
MediaDoneNoAwait ==
    /\ pc = "media"
    /\ pc' = "clean"
    /\ UNCHANGED <<cvars, mvars, argv, env, wpData, dryRun, fb, mm, pages, menuSections,
                   out, store, pos, exit>>

\* await mediaMigrator.migrate(wpData.attachments) settles
MediaDone ==
    /\ pc = "media"
    /\ \/ mpc = "returned" /\ pc' = "clean" /\ UNCHANGED exit
       \/ mpc = "rejected" /\ Exit1
    /\ UNCHANGED <<cvars, mvars, argv, env, wpData, dryRun, fb, mm, pages, menuSections,
                   out, store, pos>>

\* "[3/5] Cleaning content"
Clean ==
    /\ pc = "clean"
    /\ pages' = transform(wpData, mm, urlMap)
    /\ pc' = "menu"
    /\ UNCHANGED <<cvars, mvars, argv, env, wpData, dryRun, fb, mm, menuSections, out,
                   store, pos, exit>>

\* "Create menu sections from WordPress menus"
Menu ==
    /\ pc = "menu"
    /\ LET r == menuStage(wpData.menus, 1, <<>>, pages)
       IN  /\ menuSections' = r.sections
           /\ pages' = r.pages
    /\ pc' = "report"
    /\ UNCHANGED <<cvars, mvars, argv, env, wpData, dryRun, fb, mm, out, store, pos, exit>>

\* "[4/5]": await fs.writeFile(reportPath, ...)
WriteReport ==
    /\ pc = "report"
    /\ \/ /\ out' = [out EXCEPT !.report =
                       <<reportOf(wpData, pages, menuSections,
                                  IF mm THEN <<stats>> ELSE <<>>)>>]
          /\ pc' = "contentDir"
          /\ UNCHANGED exit
       \/ Exit1 /\ UNCHANGED out
    /\ UNCHANGED <<cvars, mvars, argv, env, wpData, dryRun, fb, mm, pages, menuSections,
                   store, pos>>

\* await fs.mkdir(contentPath)
MkdirContent ==
    /\ pc = "contentDir"
    /\ \/ pc' = "preview" /\ pos' = 1 /\ UNCHANGED exit
       \/ Exit1 /\ UNCHANGED pos
    /\ UNCHANGED <<cvars, mvars, argv, env, wpData, dryRun, fb, mm, pages, menuSections,
                   out, store>>

Min(a, b) == IF a < b THEN a ELSE b

\* the preview directory after each of the iterations lo..hi of the loop over
\* pages, from the directory it starts with: the file of a page is written
\* over a file of the same name
RECURSIVE writtenPreviews(_, _, _, _)
writtenPreviews(docs, lo, hi, files) ==
    IF lo > hi THEN <<>>
    ELSE IF lo = hi THEN <<MapSet(files, docs[lo].slug, docs[lo].content)>>
    ELSE LET mid == (lo + hi) \div 2
             left == writtenPreviews(docs, lo, mid, files)
         IN  left \o writtenPreviews(docs, mid + 1, hi, left[Len(left)])

\* the directory after the first n iterations of the loop
previewsAfter(n) ==
    IF n = 0 THEN out.previews
    ELSE writtenPreviews(pages, 1, n, out.previews)[n]

\* for (const page of pages) await fs.writeFile(`${page.slug}.html`, ...):
\* the loop runs to its end, or stops at the first write that rejects, which
\* is one of the first MaxFailedWrite
WritePreview ==
    /\ pc = "preview"
    /\ pos <= Len(pages)
    /\ \E n \in (0..(Min(MaxFailedWrite, Len(pages)) - 1)) \cup {Len(pages)} :
          /\ out' = [out EXCEPT !.previews = previewsAfter(n)]
          /\ pos' = n + 1
          /\ IF n = Len(pages) THEN UNCHANGED <<pc, exit>> ELSE Exit1
    /\ UNCHANGED <<cvars, mvars, argv, env, wpData, dryRun, fb, mm, pages, menuSections, store>>

Done ==
    /\ pc' = "done"
    /\ exit' = "exit0"

\* the commit stage is entered whatever the mode
AfterPreviewAlwaysCommits ==
    /\ pc = "preview"
    /\ pos > Len(pages)
    /\ pc' = "commit"
    /\ UNCHANGED <<cvars, mvars, argv, env, wpData, dryRun, fb, mm, pages, menuSections,
                   out, store, pos, exit>>

\* the preview loop is over: "[5/5]", skipped in a dry run
AfterPreview ==
    /\ pc = "preview"
    /\ pos > Len(pages)
    /\ IF dryRun THEN Done ELSE pc' = "commit" /\ UNCHANGED exit
    /\ UNCHANGED <<cvars, mvars, argv, env, wpData, dryRun, fb, mm, pages, menuSections,
                   out, store, pos>>

\* the media metadata loop from attachment k on: the writes of the next
\* batch (one per attachment with a new URL) and the attachment it stops at
RECURSIVE fillMedia(_, _)
fillMedia(k, batch) ==
    IF k > Len(wpData.attachments) \/ Len(batch) >= maxBatchSize
    THEN [batch |-> batch, next |-> k]
    ELSE fillMedia(k + 1,
            IF getNewUrl(urlMap, wpData.attachments[k].url) # <<>>
            THEN Append(batch, [coll |-> "media", k |-> k]) ELSE batch)

\* "Write media metadata if uploaded", from attachment k on
continueMedia(st, k) ==
    IF argv.uploadMedia /\ mm /\ fillMedia(k, <<>>).batch # <<>>
    THEN /\ store' = [st EXCEPT !.open = fillMedia(k, <<>>).batch, !.calls = @ + 1]
         /\ pos' = fillMedia(k, <<>>).next
         /\ pc' = "commitMedia"
         /\ UNCHANGED exit
    ELSE /\ store' = st
         /\ UNCHANGED pos
         /\ Done

\* a batch is committed one write after it has reached the batch size
continuePagesLateCommit(st, k) ==
    IF k <= Len(pages)
    THEN /\ store' = [st EXCEPT !.open = [j \in 1..Min(maxBatchSize + 1, Len(pages) - k + 1) |->
                                             [coll |-> "pages", k |-> k + j - 1]],
                                !.calls = @ + 1]
         /\ pos' = k + Min(maxBatchSize + 1, Len(pages) - k + 1)
         /\ pc' = "commitPages"
         /\ UNCHANGED exit
    ELSE continueMedia(st, 1)

\* "Write pages in batches", from page k on: the pages up to the batch size
\* are set and the batch is committed
continuePages(st, k) ==
    IF k <= Len(pages)
    THEN /\ store' = [st EXCEPT !.open = [j \in 1..Min(maxBatchSize, Len(pages) - k + 1) |->
                                             [coll |-> "pages", k |-> k + j - 1]],
                                !.calls = @ + 1]
         /\ pos' = k + Min(maxBatchSize, Len(pages) - k + 1)
         /\ pc' = "commitPages"
         /\ UNCHANGED exit
    ELSE continueMedia(st, 1)

\* "Write menu sections" and "Commit menu sections"
BeginCommit ==
    /\ pc = "commit"
    /\ IF menuSections # <<>>
       THEN /\ store' = [store EXCEPT !.open = [j \in 1..Len(menuSections) |->
                                                   [coll |-> "menuSections", k |-> j]],
                                      !.calls = @ + 1]
            /\ pc' = "commitMenus"
            /\ UNCHANGED <<pos, exit>>
       ELSE continuePages(store, 1)
    /\ UNCHANGED <<cvars, mvars, argv, env, wpData, dryRun, fb, mm, pages, menuSections, out>>

\* await batch.commit() resolves: the writes of the batch are in the store
CommitOk ==
    /\ pc \in {"commitMenus", "commitPages", "commitMedia"}
    /\ LET st == [store EXCEPT !.committed = Append(@, store.open), !.open = <<>>]
       IN  CASE pc = "commitMenus" -> continuePages(st, 1)
             [] pc = "commitPages" -> continuePages(st, pos)
             [] pc = "commitMedia" -> continueMedia(st, pos)
    /\ UNCHANGED <<cvars, mvars, argv, env, wpData, dryRun, fb, mm, pages, menuSections, out>>

\* a rejected commit is swallowed: the batch is dropped and the loop goes on
CommitFailsSwallowed ==
    /\ pc \in {"commitMenus", "commitPages", "commitMedia"}
    /\ LET st == [store EXCEPT !.open = <<>>]
       IN  CASE pc = "commitMenus" -> continuePages(st, 1)
             [] pc = "commitPages" -> continuePages(st, pos)
             [] pc = "commitMedia" -> continueMedia(st, pos)
    /\ UNCHANGED <<cvars, mvars, argv, env, wpData, dryRun, fb, mm, pages, menuSections, out>>

\* await batch.commit() rejects: migrate() rejects, the process exits 1
CommitFails ==
    /\ pc \in {"commitMenus", "commitPages", "commitMedia"}
    /\ Exit1
    /\ UNCHANGED <<cvars, mvars, argv, env, wpData, dryRun, fb, mm, pages, menuSections,
                   out, store, pos>>

Next ==
    \/ CheckInput
    \/ MkdirOutput
    \/ InitFirebase
    \/ ParseSettles
    \/ MediaStage
    \/ MediaStep
    \/ MediaDone
    \/ Clean
    \/ Menu
    \/ WriteReport
    \/ MkdirContent
    \/ WritePreview
    \/ AfterPreview
    \/ BeginCommit
    \/ CommitOk
    \/ CommitFails

(***************************************************************************)
(* The exports the runs of the model read.                                 *)
(***************************************************************************)
Page(title, slug, content, status, menuOrder) ==
    [title |-> title, slug |-> slug, content |-> content, status |-> status,
     menuOrder |-> menuOrder]

PageA == Page(<<"A">>, <<"a">>, <<"h", "/", "a">>, "published", 0)

PageB == Page(<<"B">>, <<"b">>, <<" ", "x", "!", "h", "/", "A", " ">>, "draft", 1)

\* a page of another parent with the slug of PageA
PageA2 == Page(<<"A", "2">>, <<"a">>, <<"x">>, "published", 2)

PostN == Page(<<"N">>, <<"n">>, <<"h", "/", "a", "b">>, "published", 0)

\* a post with the slug of PageB
PostB == Page(<<"B", "2">>, <<"b">>, <<"x">>, "published", 0)

PageLists == {<<>>, <<PageA>>, <<PageA, PageB>>, <<PageB, PageA>>, <<PageA, PageA2>>}

PostLists == {<<>>, <<PostN>>, <<PostB>>}

RunAttachmentLists ==
    {<<>>,
     <<parseAttachment(IdOf(1), <<"h", "/", "a">>)>>,
     <<parseAttachment(IdOf(1), <<"h", "/", "a">>),
       parseAttachment(IdOf(2), <<"h", "/", "A">>)>>,
     <<parseAttachment(IdOf(1), NoUrl),
       parseAttachment(IdOf(2), <<"h", "/", "b">>)>>}

MenuItem(id, title, parentId, objectType, url, order) ==
    [id |-> id, title |-> title, parentId |-> parentId, objectType |-> objectType,
     url |-> url, order |-> order]

MenuItemLists ==
    {<<>>,
     <<MenuItem(1, <<"M", "a", "i", "n">>, "0", "page", <<"/", "a", "/">>, 2)>>,
     <<MenuItem(1, <<"B">>, "0", "page", <<"/", "x">>, 3),
       MenuItem(2, <<"A", " ", "b">>, "0", "custom", <<"h", "/", "x">>, 1),
       MenuItem(3, <<"A">>, "1", "page", <<"b">>, 0)>>,
     <<MenuItem(1, <<"A">>, "0", "page", <<"/", "a">>, 2),
       MenuItem(2, <<"A">>, "0", "page", <<"/", "b", "/">>, 1)>>}

Exports ==
    {[pages |-> p, posts |-> q, attachments |-> a, menus |-> buildMenuStructure(m)] :
        p \in PageLists, q \in PostLists, a \in RunAttachmentLists, m \in MenuItemLists}

\* the digits of n
RECURSIVE Digits(_)
Digits(n) ==
    (IF n >= 10 THEN Digits(n \div 10) ELSE <<>>)
    \o <<CASE n % 10 = 0 -> "0" [] n % 10 = 1 -> "1" [] n % 10 = 2 -> "2"
           [] n % 10 = 3 -> "3" [] n % 10 = 4 -> "4" [] n % 10 = 5 -> "5"
           [] n % 10 = 6 -> "6" [] n % 10 = 7 -> "7" [] n % 10 = 8 -> "8"
           [] OTHER -> "9">>

\* an export of n pages p1, p2, ...: enough pages to fill write batches
BulkExport(n) ==
    [pages |-> [k \in 1..n |-> Page(<<"p">> \o Digits(k), <<"p">> \o Digits(k),
                                    <<"x">>, "published", k)],
     posts |-> <<PostN>>,
     attachments |-> <<parseAttachment(IdOf(1), <<"h", "/", "a">>)>>,
     menus |-> buildMenuStructure(
                  <<MenuItem(1, <<"M", "a", "i", "n">>, "0", "page", <<"p", "1">>, 1)>>)]

BulkExports ==
    {BulkExport(n) : n \in {maxBatchSize - 1, maxBatchSize, 2 * maxBatchSize}}

Flags == [dryRun : BOOLEAN, downloadMedia : BOOLEAN, uploadMedia : BOOLEAN]

Init ==
    /\ \/ /\ wpData \in Exports
          /\ argv \in Flags
          /\ env \in [input : {"ok"}, channel : {TRUE},
                      firebase : {"ok", "nocreds", "nofirestore"}]
          /\ disk \in SUBSET {<<"a">>}
       \/ /\ wpData \in BulkExports
          /\ argv \in {[dryRun |-> FALSE, downloadMedia |-> FALSE, uploadMedia |-> FALSE],
                      [dryRun |-> FALSE, downloadMedia |-> TRUE, uploadMedia |-> TRUE]}
          /\ env = [input |-> "ok", channel |-> TRUE, firebase |-> "ok"]
          /\ disk = {}
       \/ /\ wpData = NoData
          /\ argv \in Flags
          /\ env \in {[input |-> "none", channel |-> FALSE, firebase |-> "ok"],
                      [input |-> "missing", channel |-> FALSE, firebase |-> "ok"],
                      [input |-> "ok", channel |-> FALSE, firebase |-> "ok"],
                      [input |-> "ok", channel |-> FALSE, firebase |-> "nocreds"]}
          /\ disk = {}
    /\ pc = "start"
    /\ dryRun = argv.dryRun
    /\ fb = [app |-> FALSE, db |-> FALSE]
    /\ mm = FALSE
    /\ pages = <<>>
    /\ menuSections = <<>>
    /\ out = NoOutput
    /\ store = EmptyStore
    /\ pos = 0
    /\ exit = "running"
    /\ mpc = "idle"
    /\ mopts = NewOptions(FALSE, 0, TRUE)
    /\ storage = FALSE
    /\ stats = NewStats
    /\ urlMap = <<>>
    /\ atts = <<>>
    /\ task = <<>>
    /\ cur = 0
    /\ net = [get |-> {}, put |-> {}]
    /\ call = NoCall /\ ret = <<>> /\ first = NoRun

Spec == Init /\ [][Next]_vars

(***************************************************************************)
(* One migrate() call on a freshly constructed MediaMigrator, for every    *)
(* option set, attachment list and content of the download directory.      *)
(***************************************************************************)
InitMedia ==
    /\ atts \in AttachmentLists
    /\ \E bucket \in BOOLEAN, concurrency \in {0, 1, 2}, skipExisting \in BOOLEAN :
          /\ mopts = NewOptions(bucket, concurrency, skipExisting)
          /\ storage = bucket
    /\ stats = NewStats
    /\ urlMap = <<>>
    /\ task = Pending(atts)
    /\ cur = 0
    /\ disk \in SUBSET {<<"a">>}
    /\ net = [get |-> {}, put |-> {}]
    /\ mpc = "mkdir"
    /\ mm = TRUE
    /\ pc = "library"
    /\ argv = [dryRun |-> TRUE, downloadMedia |-> FALSE, uploadMedia |-> FALSE]
    /\ env = [input |-> "none", channel |-> FALSE, firebase |-> "nocreds"]
    /\ wpData = NoData
    /\ dryRun = TRUE
    /\ fb = [app |-> FALSE, db |-> FALSE]
    /\ pages = <<>>
    /\ menuSections = <<>>
    /\ out = NoOutput
    /\ store = EmptyStore
    /\ pos = 0
    /\ exit = "running"
    /\ call = NoCall /\ ret = <<>> /\ first = NoRun

SpecMedia == InitMedia /\ [][MediaStep]_vars

(***************************************************************************)
(* Calls of the library functions on their own: clean() of a               *)
(* ContentCleaner, applied to an input and then to its own output, and     *)
(* mapStatus() of the parser.                                              *)
(***************************************************************************)
OldBase == <<"http://old">>

NewBase == <<"http://new">>

UrlOld == OldBase \o <<"/", "a">>

UrlRoot == <<"/", "a">>

UrlScheme == <<"/", "/", "cdn", "/", "a">>

UrlOther == <<"http://cdn", "/", "a">>

UrlFacebook == <<"http://", "facebook", "/", "v">>

X == Text(<<"x">>)

P(kids) == El("p", <<>>, <<>>, kids)

Div(cls, kids) == El("div", cls, <<>>, kids)

Img(attrs) == El("img", <<>>, attrs, <<>>)

A(href, kids) == El("a", <<>>, <<<<"href", href>>>>, kids)

\* markup with the inner structure one of the converters looks for, and
\* markup without
Leaves ==
    { X,
      Text(<<" ">>),
      Comment,
      P(<<X>>),
      P(<<>>),
      El("script", <<>>, <<>>, <<X>>),
      El("h2", <<<<"elementor-", "heading-title">>>>, <<>>, <<X>>),
      Div(<<<<"elementor-", "text-editor">>>>, <<P(<<X>>)>>),
      Img(<<<<"src", UrlOld>>>>),
      Img(<<<<"src", UrlRoot>>, <<"alt", <<"A">>>>, <<"data-src", UrlOld>>>>),
      El("iframe", <<>>, <<<<"src", UrlOld>>>>, <<>>),
      El("iframe", <<>>, <<<<"src", UrlFacebook>>>>, <<>>),
      El("video", <<>>, <<<<"src", UrlOld>>>>, <<>>),
      A(UrlOld, <<X>>),
      A(UrlRoot, <<El("span", <<<<"elementor-", "button-text">>>>, <<>>, <<X>>)>>),
      A(UrlScheme, <<X>>),
      A(UrlOther, <<X>>),
      El("li", <<<<"elementor-", "icon-list-item">>>>, <<>>,
         <<El("span", <<<<"elementor-", "icon-list-text">>>>, <<>>, <<X>>)>>),
      Div(<<<<"elementor-", "accordion-item">>>>,
          <<A(<<>>, <<X>>) , Div(<<<<"elementor-", "accordion-content">>>>, <<P(<<X>>)>>)>>),
      Div(<<>>, <<Div(<<<<"elementor-", "tab-title">>>>, <<X>>),
                  Div(<<<<"elementor-", "tab-content">>>>, <<P(<<X>>)>>)>>),
      El("h3", <<<<"elementor-", "image-box-title">>>>, <<>>, <<X>>),
      El("b", <<>>, <<<<"aria-hidden", <<"true">>>>>>,
         <<El("i", <<>>, <<<<"aria-hidden", <<"true">>>>>>, <<>>)>>),
      El("div", <<<<"wp-", "block">>, <<"lead">>>>,
         <<<<"id", <<"elementor-", "7">>>>, <<"style", <<"color">>>>, <<"data-id", <<"7">>>>>>,
         <<P(<<X>>), X>>) }

\* two nodes side by side
Pairs ==
    {<<a, b>> : a, b \in {X, Text(<<" ">>), Comment, P(<<X>>), P(<<>>),
                          Img(<<<<"src", UrlOld>>>>)}}

\* no two text nodes are adjacent in a parsed document
Parsed(nodes) == \A k \in 1..(Len(nodes) - 1) : nodes[k].tag # "#text" \/ nodes[k + 1].tag # "#text"

Fragments == {<<n>> : n \in Leaves} \cup {f \in Pairs : Parsed(f)}

WidgetTypes ==
    {"heading", "text-editor", "image", "video", "button", "icon-list", "accordion",
     "tabs", "image-gallery", "image-box", "counter", "toString"}

Widget(type, kids) ==
    El("div", <<<<"elementor-", "widget">>>>,
       <<<<"data-widget_type", <<type, ".", "default">>>>>>, kids)

Wrappers == {"div", "keep", "column", "span"}

Wrap(w, kids) ==
    CASE w = "div" -> Div(<<>>, kids)
      [] w = "keep" -> Div(<<<<"wp-", "block">>>>, kids)
      [] w = "column" -> Div(<<<<"elementor-", "column">>>>, kids)
      [] w = "span" -> El("span", <<>>, <<>>, kids)

CleanInputs ==
    {<<>>} \cup Fragments
    \cup {<<Wrap(w, f)>> : w \in Wrappers, f \in Fragments}
    \cup {<<Widget(t, <<n>>)>> : t \in WidgetTypes, n \in Leaves}
    \cup {<<Div(<<>>, <<Widget(t, <<P(<<X>>)>>)>>)>> : t \in WidgetTypes}
    \cup {<<Div(<<>>, <<Wrap(w, f)>>)>> : w \in Wrappers, f \in Pairs}

\* new ContentCleaner(options), with the defaults of the constructor
CleanerOptions ==
    [baseUrl : {<<>>, OldBase},
     newBaseUrl : {<<>>, NewBase, OldBase \o <<"/", "new">>},
     keepClasses : {{}, {<<"wp-", "block">>}},
     removeEmpty : BOOLEAN,
     semanticize : BOOLEAN]

\* the values of <wp:status> in an export, "" when the element is absent
StatusInputs ==
    {"publish", "draft", "pending", "private", "future", "trash", "inherit", "",
     "constructor"}

InitPure ==
    /\ \/ \E html \in CleanInputs, options \in CleanerOptions :
             call = [fn |-> "clean", html |-> html, options |-> options]
       \/ \E wpStatus \in StatusInputs :
             call = [fn |-> "mapStatus", wpStatus |-> wpStatus]
    /\ ret = <<>>
    /\ first = NoRun
    /\ mpc = "idle"
    /\ mopts = NewOptions(FALSE, 0, TRUE)
    /\ storage = FALSE
    /\ stats = NewStats
    /\ urlMap = <<>>
    /\ atts = <<>>
    /\ task = <<>>
    /\ cur = 0
    /\ disk = {}
    /\ net = [get |-> {}, put |-> {}]
    /\ pc = "library"
    /\ argv = [dryRun |-> TRUE, downloadMedia |-> FALSE, uploadMedia |-> FALSE]
    /\ env = [input |-> "none", channel |-> FALSE, firebase |-> "nocreds"]
    /\ wpData = NoData
    /\ dryRun = TRUE
    /\ fb = [app |-> FALSE, db |-> FALSE]
    /\ mm = FALSE
    /\ pages = <<>>
    /\ menuSections = <<>>
    /\ out = NoOutput
    /\ store = EmptyStore
    /\ pos = 0
    /\ exit = "running"

\* cleaner.clean(html), then cleaner.clean() of what it returned
CleanCall ==
    /\ call.fn = "clean"
    /\ Len(ret) < 2
    /\ ret' = Append(ret, cleanContainer(call.options,
                                         IF ret = <<>> THEN call.html ELSE ret[Len(ret)]))
    /\ UNCHANGED <<call, first, mvars, ovars>>

\* parser.mapStatus(wpStatus)
MapStatusCall ==
    /\ call.fn = "mapStatus"
    /\ ret = <<>>
    /\ ret' = <<mapStatus(call.wpStatus)>>
    /\ UNCHANGED <<call, first, mvars, ovars>>

NextPure == CleanCall \/ MapStatusCall

SpecPure == InitPure /\ [][NextPure]_vars

(***************************************************************************)
(* migrate() called a second time on the same attachments: a new           *)
(* MediaMigrator with the same options over the download directory the     *)
(* first run left, after a first run in which nothing failed.              *)
(***************************************************************************)
InitRerun ==
    /\ atts \in AttachmentLists
    /\ \E bucket \in BOOLEAN, concurrency \in {0, 1, 2} :
          /\ mopts = NewOptions(bucket, concurrency, TRUE)
          /\ storage = bucket
    /\ stats = NewStats
    /\ urlMap = <<>>
    /\ task = Pending(atts)
    /\ cur = 0
    /\ disk \in SUBSET {<<"a">>}
    /\ net = [get |-> {}, put |-> {}]
    /\ mpc = "mkdir"
    /\ mm = TRUE
    /\ pc = "library"
    /\ argv = [dryRun |-> TRUE, downloadMedia |-> FALSE, uploadMedia |-> FALSE]
    /\ env = [input |-> "none", channel |-> FALSE, firebase |-> "nocreds"]
    /\ wpData = NoData
    /\ dryRun = TRUE
    /\ fb = [app |-> FALSE, db |-> FALSE]
    /\ pages = <<>>
    /\ menuSections = <<>>
    /\ out = NoOutput
    /\ store = EmptyStore
    /\ pos = 0
    /\ exit = "running"
    /\ call = NoCall /\ ret = <<>> /\ first = NoRun

\* new MediaMigrator(options).migrate(attachments) once more: the statistics,
\* the URL map and the requests are those of the new run, the files stay
Rerun ==
    /\ mpc = "returned"
    /\ first.run = 1
    /\ stats.failed = 0
    /\ first' = [urlMap |-> urlMap, net |-> net, run |-> 2]
    /\ stats' = NewStats
    /\ urlMap' = <<>>
    /\ task' = Pending(atts)
    /\ cur' = 0
    /\ net' = [get |-> {}, put |-> {}]
    /\ mpc' = "mkdir"
    /\ UNCHANGED <<mopts, storage, atts, disk, ovars, call, ret>>

NextRerun == MediaStep \/ Rerun

SpecRerun == InitRerun /\ [][NextRerun]_vars

(***************************************************************************)
(* exportUrlMap and importUrlMap.  A key of this.urlMap is a string (a     *)
(* URL, an id read as text) or a number (an id, written <<"#", digit>>);   *)
(* a property name of the exported object is always a string.              *)
(***************************************************************************)
\* String(key)
String(key) == IF key # <<>> /\ key[1] = "#" THEN Tail(key) ELSE key

\* a property name that is an array index: such properties are enumerated
\* first, in ascending numeric order
IsIndex(name) == Len(name) = 1 /\ name[1] \in DigitChars

IndexValue(name) == CHOOSE n \in 0..9 : Digits(n) = name

\* mapData[key] = value on a plain object: the name is String(key);
\* assigning a string to __proto__ sets nothing
setProperty(obj, key, value) ==
    IF String(key) = <<"__proto__">> THEN obj
    ELSE MapSet(obj, String(key), value)

\* Object.entries(obj) and JSON.stringify(obj): index names ascending, then
\* the other names in the order they were created
ownEntries(obj) ==
    LET idx == {k \in 1..Len(obj) : IsIndex(obj[k][1])}
        byValue == [n \in 0..9 |->
                      IF \E k \in idx : IndexValue(obj[k][1]) = n
                      THEN <<obj[CHOOSE k \in idx : IndexValue(obj[k][1]) = n]>>
                      ELSE <<>>]
        RECURSIVE upTo(_)
        upTo(n) == IF n < 0 THEN <<>> ELSE upTo(n - 1) \o byValue[n]
    IN  upTo(9) \o SelectSeq(obj, LAMBDA e : ~IsIndex(e[1]))

\* for (const [key, value] of this.urlMap) mapData[key] = value, from entry k
RECURSIVE mapDataFrom(_, _, _)
mapDataFrom(m, k, obj) ==
    IF k > Len(m) THEN obj
    ELSE mapDataFrom(m, k + 1, setProperty(obj, m[k][1], m[k][2]))

\* the text exportUrlMap writes, as JSON.parse reads it back
exportUrlMap(m) == ownEntries(mapDataFrom(m, 1, <<>>))

\* for (const [key, value] of Object.entries(mapData)) this.urlMap.set(key, value)
RECURSIVE importUrlMap(_, _, _)
importUrlMap(m, mapData, k) ==
    IF k > Len(mapData) THEN m
    ELSE importUrlMap(MapSet(m, mapData[k][1], mapData[k][2]), mapData, k + 1)

\* the attachments whose processing filled the map: ids as numbers and as
\* text, URLs, and the new URLs recorded for them
MapAttachments ==
    {[id |-> id, url |-> url, newUrl |-> new] :
        id \in {<<"#", "1">>, <<"#", "2">>, <<"1">>},
        url \in {<<"h", "/", "a">>, <<"h", "/", "b">>, <<"__proto__">>},
        new \in {localUrl(<<"a">>), localUrl(<<"b">>)}}

MaxMapAttachments == 2

UrlMaps ==
    {<<>>} \cup {setUrlMap(<<>>, a, a.newUrl) : a \in MapAttachments}
    \cup (IF MaxMapAttachments < 2 THEN {}
          ELSE {setUrlMap(setUrlMap(<<>>, a, a.newUrl), b, b.newUrl) :
                   a \in MapAttachments, b \in MapAttachments})

InitMap ==
    /\ urlMap \in UrlMaps
    /\ call = [fn |-> "exportUrlMap"]
    /\ ret = <<>>
    /\ first = NoRun
    /\ mpc = "idle"
    /\ mopts = NewOptions(FALSE, 0, TRUE)
    /\ storage = FALSE
    /\ stats = NewStats
    /\ atts = <<>>
    /\ task = <<>>
    /\ cur = 0
    /\ disk = {}
    /\ net = [get |-> {}, put |-> {}]
    /\ pc = "library"
    /\ argv = [dryRun |-> TRUE, downloadMedia |-> FALSE, uploadMedia |-> FALSE]
    /\ env = [input |-> "none", channel |-> FALSE, firebase |-> "nocreds"]
    /\ wpData = NoData
    /\ dryRun = TRUE
    /\ fb = [app |-> FALSE, db |-> FALSE]
    /\ mm = FALSE
    /\ pages = <<>>
    /\ menuSections = <<>>
    /\ out = NoOutput
    /\ store = EmptyStore
    /\ pos = 0
    /\ exit = "running"

\* await migrator.exportUrlMap(outputPath): the file is written, or
\* fs.writeFile rejects and so does the call
ExportUrlMap ==
    /\ call.fn = "exportUrlMap"
    /\ \/ /\ ret' = <<exportUrlMap(urlMap)>>
          /\ call' = [fn |-> "importUrlMap"]
       \/ /\ call' = [fn |-> "rejected"]
          /\ UNCHANGED ret
    /\ UNCHANGED <<first, mvars, ovars>>

\* await new MediaMigrator().importUrlMap(inputPath) of the exported file:
\* ret[2] is the urlMap of the importing migrator
ImportUrlMap ==
    /\ call.fn = "importUrlMap"
    /\ ret' = Append(ret, importUrlMap(<<>>, ret[1], 1))
    /\ call' = [fn |-> "imported"]
    /\ UNCHANGED <<first, mvars, ovars>>

NextMap == ExportUrlMap \/ ImportUrlMap

SpecMap == InitMap /\ [][NextMap]_vars

(***************************************************************************)
(* The final URL pass on one page body, with the URL map a finished        *)
(* migrate() call left: each attachment was migrated (its URL and id are   *)
(* keys) or failed (no key).                                               *)
(***************************************************************************)
PassUrls == {<<"h", "/", "a">>, <<"h", "/", "a", "_">>, <<"h", "/", "b">>}

PassAttachmentLists ==
    {<<parseAttachment(IdOf(1), u)>> : u \in PassUrls}
    \cup {<<parseAttachment(IdOf(1), uv[1]), parseAttachment(IdOf(2), uv[2])>> :
             uv \in {w \in PassUrls \X PassUrls : w[1] # w[2]}}

PassContents ==
    {<<"x">>} \cup PassUrls
    \cup {<<"x", " ">> \o u \o <<" ">> \o v : u \in PassUrls, v \in PassUrls}

\* the map after the attachments of `done` were set, in list order from k on
RECURSIVE mapAfter(_, _, _, _, _)
mapAfter(list, done, bucket, k, m) ==
    IF k > Len(list) THEN m
    ELSE mapAfter(list, done, bucket, k + 1,
            IF k \in done
            THEN setUrlMap(m, list[k],
                           IF bucket THEN uploadedUrl(localPathOf(list[k], "0"))
                           ELSE localUrl(localPathOf(list[k], "0")))
            ELSE m)

InitUrls ==
    /\ atts \in PassAttachmentLists
    /\ storage \in BOOLEAN
    /\ \E done \in SUBSET (1..Len(atts)) : urlMap = mapAfter(atts, done, storage, 1, <<>>)
    /\ \E content \in PassContents : call = [fn |-> "updateContentUrls", content |-> content]
    /\ ret = <<>>
    /\ first = NoRun
    /\ mpc = "returned"
    /\ mopts = NewOptions(storage, 0, TRUE)
    /\ stats = NewStats
    /\ task = <<>>
    /\ cur = 0
    /\ disk = {}
    /\ net = [get |-> {}, put |-> {}]
    /\ pc = "library"
    /\ argv = [dryRun |-> TRUE, downloadMedia |-> FALSE, uploadMedia |-> FALSE]
    /\ env = [input |-> "none", channel |-> FALSE, firebase |-> "nocreds"]
    /\ wpData = NoData
    /\ dryRun = TRUE
    /\ fb = [app |-> FALSE, db |-> FALSE]
    /\ mm = TRUE
    /\ pages = <<>>
    /\ menuSections = <<>>
    /\ out = NoOutput
    /\ store = EmptyStore
    /\ pos = 0
    /\ exit = "running"

\* const cleanedContent = cleaner.clean(page.content);
\* finalContent = mediaMigrator.updateContentUrls(cleanedContent)
FinalUrlPass ==
    /\ call.fn = "updateContentUrls"
    /\ ret = <<>>
    /\ ret' = <<finalContent(mm, urlMap, clean(call.content))>>
    /\ UNCHANGED <<call, first, mvars, ovars>>

SpecUrls == InitUrls /\ [][FinalUrlPass]_vars

(***************************************************************************)
(* buildMenuStructure loop by loop, with the item objects it links.  The   *)
(* object made for the k-th menu item is written k; itemsById maps the     *)
(* property name of an id to the object stored last under it; children[k]  *)
(* is the children array of object k.  The ids are the post ids of the     *)
(* export, one per item.                                                   *)
(***************************************************************************)
MaxMenuItems == 4

MenuOrders == {1, 2}

\* a parentId no item of the list has as id
MissingParent == "9"

\* the property name of a numeric id
IdKey(id) == Digits(id)[1]

ParentIds(n) == {"0", MissingParent} \cup {IdKey(k) : k \in 1..n}

\* the list of n items whose k-th item has the parentId and order f[k]
TreeItems(n, f) ==
    [k \in 1..n |-> MenuItem(k, IF k = 1 THEN <<"A">> ELSE <<"B">>, f[k][1], "page",
                             <<"/", "a">>, f[k][2])]

\* for (const item of menuItems) itemsById[item.id] = { ...item, children: [] }
RECURSIVE indexFrom(_, _, _)
indexFrom(items, k, byId) ==
    IF k > Len(items) THEN byId
    ELSE indexFrom(items, k + 1, MapSet(byId, IdKey(items[k].id), k))

\* an item whose parentId names no item is linked under the first object
RECURSIVE linkFromOrphansAdopted(_, _, _, _)
linkFromOrphansAdopted(items, byId, k, arrays) ==
    IF k > Len(items) THEN arrays
    ELSE linkFromOrphansAdopted(items, byId, k + 1,
            IF items[k].parentId # "0"
            THEN [arrays EXCEPT ![IF items[k].parentId \in MapKeys(byId)
                                  THEN MapValue(byId, items[k].parentId) ELSE 1] =
                     Append(@, MapValue(byId, IdKey(items[k].id)))]
            ELSE arrays)

\* if (item.parentId !== '0' && itemsById[item.parentId])
\*     itemsById[item.parentId].children.push(itemsById[item.id])
RECURSIVE linkFrom(_, _, _, _)
linkFrom(items, byId, k, arrays) ==
    IF k > Len(items) THEN arrays
    ELSE linkFrom(items, byId, k + 1,
            IF items[k].parentId # "0" /\ items[k].parentId \in MapKeys(byId)
            THEN [arrays EXCEPT ![MapValue(byId, items[k].parentId)] =
                     Append(@, MapValue(byId, IdKey(items[k].id)))]
            ELSE arrays)

\* if (item.parentId === '0') menus[firstMenu].items.push(itemsById[item.id])
RECURSIVE topLevelFrom(_, _, _)
topLevelFrom(items, byId, k) ==
    IF k > Len(items) THEN <<>>
    ELSE (IF items[k].parentId = "0" THEN <<MapValue(byId, IdKey(items[k].id))>>
          ELSE <<>>) \o topLevelFrom(items, byId, k + 1)

\* array.sort((a, b) => a.order - b.order) on an array of objects: stable
RECURSIVE insertObject(_, _, _)
insertObject(items, s, x) ==
    IF s = <<>> THEN <<x>>
    ELSE IF items[s[1]].order <= items[x].order
         THEN <<s[1]>> \o insertObject(items, Tail(s), x)
         ELSE <<x>> \o s

RECURSIVE sortObjects(_, _)
sortObjects(items, s) ==
    IF s = <<>> THEN <<>>
    ELSE insertObject(items, sortObjects(items, SubSeq(s, 1, Len(s) - 1)), s[Len(s)])

\* for (const item of menu.items) item.children.sort(...): the children
\* arrays of the top-level items are sorted, the arrays below them are not
sortChildren(items, top, arrays) ==
    [k \in 1..Len(arrays) |->
        IF \E j \in 1..Len(top) : top[j] = k THEN sortObjects(items, arrays[k])
        ELSE arrays[k]]

InitTree ==
    /\ \E n \in 0..MaxMenuItems :
          \E f \in [1..n -> ParentIds(n) \X MenuOrders] :
             call = [fn |-> "buildMenuStructure", menuItems |-> TreeItems(n, f),
                     at |-> "group", menus |-> <<>>, itemsById |-> <<>>,
                     children |-> <<>>, items |-> <<>>]
    /\ ret = <<>>
    /\ first = NoRun
    /\ mpc = "idle"
    /\ mopts = NewOptions(FALSE, 0, TRUE)
    /\ storage = FALSE
    /\ stats = NewStats
    /\ urlMap = <<>>
    /\ atts = <<>>
    /\ task = <<>>
    /\ cur = 0
    /\ disk = {}
    /\ net = [get |-> {}, put |-> {}]
    /\ pc = "library"
    /\ argv = [dryRun |-> TRUE, downloadMedia |-> FALSE, uploadMedia |-> FALSE]
    /\ env = [input |-> "none", channel |-> FALSE, firebase |-> "nocreds"]
    /\ wpData = NoData
    /\ dryRun = TRUE
    /\ fb = [app |-> FALSE, db |-> FALSE]
    /\ mm = FALSE
    /\ pages = <<>>
    /\ menuSections = <<>>
    /\ out = NoOutput
    /\ store = EmptyStore
    /\ pos = 0
    /\ exit = "running"

\* "Group by menu" and "If no root menus found, create a default"
GroupMenus ==
    /\ call.fn = "buildMenuStructure" /\ call.at = "group"
    /\ LET found == MenuNames(call.menuItems, <<>>)
       IN  call' = [call EXCEPT !.menus = IF found = <<>> THEN <<MainMenu>> ELSE found,
                                !.at = "index"]
    /\ UNCHANGED <<ret, first, mvars, ovars>>

\* "Build tree structure", first loop
IndexItems ==
    /\ call.fn = "buildMenuStructure" /\ call.at = "index"
    /\ call' = [call EXCEPT !.itemsById = indexFrom(call.menuItems, 1, <<>>),
                            !.children = [k \in 1..Len(call.menuItems) |-> <<>>],
                            !.at = "link"]
    /\ UNCHANGED <<ret, first, mvars, ovars>>

\* "Build tree structure", second loop
LinkChildren ==
    /\ call.fn = "buildMenuStructure" /\ call.at = "link"
    /\ call' = [call EXCEPT !.children = linkFrom(call.menuItems, call.itemsById, 1,
                                                  call.children),
                            !.at = "roots"]
    /\ UNCHANGED <<ret, first, mvars, ovars>>

\* "Add top-level items to menus"
AddTopLevel ==
    /\ call.fn = "buildMenuStructure" /\ call.at = "roots"
    /\ call' = [call EXCEPT !.items = topLevelFrom(call.menuItems, call.itemsById, 1),
                            !.at = "sort"]
    /\ UNCHANGED <<ret, first, mvars, ovars>>

\* "Sort by order" and return menus: ret[1] is the returned structure, the
\* objects of the items lists and their children arrays
SortAndReturn ==
    /\ call.fn = "buildMenuStructure" /\ call.at = "sort"
    /\ LET top == sortObjects(call.menuItems, call.items)
       IN  ret' = <<[menus |-> [k \in 1..Len(call.menus) |->
                                   [name |-> call.menus[k],
                                    items |-> IF k = 1 THEN top ELSE <<>>]],
                     children |-> sortChildren(call.menuItems, top, call.children)]>>
    /\ call' = [call EXCEPT !.at = "returned"]
    /\ UNCHANGED <<first, mvars, ovars>>

NextTree == GroupMenus \/ IndexItems \/ LinkChildren \/ AddTopLevel \/ SortAndReturn

SpecTree == InitTree /\ [][NextTree]_vars

\* every loop of buildMenuStructure that can take its next step takes it
SpecTreeFair == SpecTree /\ WF_vars(NextTree)

(***************************************************************************)
(* removeEmptyElements pass by pass: the do-while loop, and in it one      *)
(* querySelectorAll per tag of emptyTags.  The elements a query returns    *)
(* are tested in document order; removing one changes nothing below the    *)
(* elements that follow it in the list, so each is tested as it was when   *)
(* the list was taken, and removing an element below a removed one changes *)
(* nothing in the container.                                               *)
(***************************************************************************)
emptyTagList == <<"p", "div", "span", "li", "ul", "ol", "section", "article">>

\* for (const el of container.querySelectorAll(tag)) if (...) el.remove()
RECURSIVE removeEmptyOfTag(_, _)
removeEmptyOfTag(tag, nodes) ==
    IF nodes = <<>> THEN <<>>
    ELSE (IF Head(nodes).tag = tag /\ isEmptyElement(Head(nodes)) THEN <<>>
          ELSE <<[Head(nodes) EXCEPT !.kids = removeEmptyOfTag(tag, Head(nodes).kids)]>>)
         \o removeEmptyOfTag(tag, Tail(nodes))

EmptyInputs ==
    CleanInputs
    \cup {<<El("ul", <<>>, <<>>, <<El("li", <<>>, <<>>, kids)>>)>> :
             kids \in {<<>>, <<Text(<<" ">>)>>, <<X>>, <<Img(<<<<"src", UrlOld>>>>)>>,
                       <<A(UrlOld, <<>>)>>, <<P(<<>>), El("ol", <<>>, <<>>, <<>>)>>}}
    \cup {<<El("section", <<>>, <<>>,
               <<El("article", <<>>, <<>>, <<Text(<<" ">>), El("span", <<>>, <<>>, <<>>)>>),
                 n>>)>> : n \in {X, P(<<>>), El("svg", <<>>, <<>>, <<>>)}}

InitEmpty ==
    /\ \E html \in EmptyInputs :
          call = [fn |-> "removeEmptyElements", html |-> html, nodes |-> html,
                  tag |-> 1, removed |-> FALSE]
    /\ ret = <<>>
    /\ first = NoRun
    /\ mpc = "idle"
    /\ mopts = NewOptions(FALSE, 0, TRUE)
    /\ storage = FALSE
    /\ stats = NewStats
    /\ urlMap = <<>>
    /\ atts = <<>>
    /\ task = <<>>
    /\ cur = 0
    /\ disk = {}
    /\ net = [get |-> {}, put |-> {}]
    /\ pc = "library"
    /\ argv = [dryRun |-> TRUE, downloadMedia |-> FALSE, uploadMedia |-> FALSE]
    /\ env = [input |-> "none", channel |-> FALSE, firebase |-> "nocreds"]
    /\ wpData = NoData
    /\ dryRun = TRUE
    /\ fb = [app |-> FALSE, db |-> FALSE]
    /\ mm = FALSE
    /\ pages = <<>>
    /\ menuSections = <<>>
    /\ out = NoOutput
    /\ store = EmptyStore
    /\ pos = 0
    /\ exit = "running"

\* one iteration of for (const tag of emptyTags)
TagPass ==
    /\ call.fn = "removeEmptyElements"
    /\ call.tag <= Len(emptyTagList)
    /\ LET after == removeEmptyOfTag(emptyTagList[call.tag], call.nodes)
       IN  call' = [call EXCEPT !.nodes = after,
                                !.removed = @ \/ after # call.nodes,
                                !.tag = @ + 1]
    /\ UNCHANGED <<ret, first, mvars, ovars>>

\* } while (removed): another round with removed = false, or the return
WhileRemoved ==
    /\ call.fn = "removeEmptyElements"
    /\ call.tag = Len(emptyTagList) + 1
    /\ IF call.removed
       THEN /\ call' = [call EXCEPT !.tag = 1, !.removed = FALSE]
            /\ UNCHANGED ret
       ELSE /\ call' = [call EXCEPT !.fn = "returned"]
            /\ ret' = <<call.nodes>>
    /\ UNCHANGED <<first, mvars, ovars>>

NextEmpty == TagPass \/ WhileRemoved

SpecEmpty == InitEmpty /\ [][NextEmpty]_vars

\* the loop goes on while it can
SpecEmptyFair == SpecEmpty /\ WF_vars(NextEmpty)

(***************************************************************************)
(* migrate() with the responses downloadFile gets told apart: a 3xx        *)
(* response with a Location header makes downloadFile call itself for the  *)
(* Location, and the promise of the first call settles as that one does.   *)
(* call.at[i] is the URL the request of attachment i in flight goes to:    *)
(* the attachment's own ("url") or the one a server redirected to          *)
(* ("location"), which may answer with a redirect back.                    *)
(***************************************************************************)
MaxDownloads == 2

InitDownload ==
    /\ atts \in {list \in AttachmentLists : Len(list) <= MaxDownloads}
    /\ \E bucket \in BOOLEAN, concurrency \in {0, 1}, skipExisting \in BOOLEAN :
          /\ mopts = NewOptions(bucket, concurrency, skipExisting)
          /\ storage = bucket
    /\ stats = NewStats
    /\ urlMap = <<>>
    /\ task = Pending(atts)
    /\ cur = 0
    /\ disk \in SUBSET {<<"a">>}
    /\ net = [get |-> {}, put |-> {}]
    /\ mpc = "mkdir"
    /\ mm = TRUE
    /\ pc = "library"
    /\ argv = [dryRun |-> TRUE, downloadMedia |-> FALSE, uploadMedia |-> FALSE]
    /\ env = [input |-> "none", channel |-> FALSE, firebase |-> "nocreds"]
    /\ wpData = NoData
    /\ dryRun = TRUE
    /\ fb = [app |-> FALSE, db |-> FALSE]
    /\ pages = <<>>
    /\ menuSections = <<>>
    /\ out = NoOutput
    /\ store = EmptyStore
    /\ pos = 0
    /\ exit = "running"
    /\ call = [fn |-> "downloadFile", at |-> [i \in 1..Len(atts) |-> "url"]]
    /\ ret = <<>>
    /\ first = NoRun

\* the response has a status from 300 to 399 and a Location header:
\* this.downloadFile(response.headers.location, localPath).then(resolve).catch(reject)
DownloadRedirects(i) ==
    /\ mpc = "running" /\ i \in Indices /\ task[i].st = "download"
    /\ call' = [call EXCEPT !.at[i] = IF @ = "url" THEN "location" ELSE "url"]
    /\ UNCHANGED <<ret, first, mvars, ovars>>

\* the request of attachment i in flight gets a response, an error or a timeout
RequestAnswered(i) ==
    \/ (DownloadOk(i) \/ DownloadFails(i)) /\ UNCHANGED <<ovars, cvars>>
    \/ DownloadRedirects(i)

NextDownload ==
    \/ MediaStep
    \/ \E i \in 1..Len(atts) : DownloadRedirects(i)

SpecDownload == InitDownload /\ [][NextDownload]_vars

\* an await on the file system or on the storage bucket settles
OtherAwaitSettles ==
    /\ \/ MkdirSettles
       \/ ChunkResolves
       \/ \E i \in 1..Len(atts) :
             \/ FileExistsResolves(i)
             \/ StorageUrlResolves(i)
             \/ UploadOk(i)
             \/ UploadFails(i)
    /\ UNCHANGED <<ovars, cvars>>

\* every await that can settle does, and every single request is answered
SpecDownloadFair ==
    /\ SpecDownload
    /\ WF_vars(OtherAwaitSettles)
    /\ \A i \in 1..MaxDownloads : WF_vars(RequestAnswered(i))

(***************************************************************************)
(* Two executions of migrate() on the same attachments, options and        *)
(* download directory, to compare what different completion orders leave:  *)
(* when the first has returned its result is kept in `first` and the       *)
(* second starts from the directory the first started from.                *)
(***************************************************************************)
OrderUrls ==
    {<<<<"h", "/", "a">>, <<"h", "/", "b">>>>,
     <<<<"h", "/", "a">>, <<"h", "/", "a", "_">>>>,
     <<<<"h", "/", "a">>, <<"h", "/", "A">>>>,
     <<<<"h", "/", "1", "/", "a">>, <<"h", "/", "2", "/", "a">>>>}

OrderAttachmentLists ==
    {<<parseAttachment(IdOf(1), u[1]), parseAttachment(IdOf(2), u[2])>> : u \in OrderUrls}

InitOrder ==
    /\ atts \in OrderAttachmentLists
    /\ \E bucket \in BOOLEAN, concurrency \in {0, 1}, skipExisting \in BOOLEAN :
          /\ mopts = NewOptions(bucket, concurrency, skipExisting)
          /\ storage = bucket
    /\ stats = NewStats
    /\ urlMap = <<>>
    /\ task = Pending(atts)
    /\ cur = 0
    /\ disk \in SUBSET {<<"a">>}
    /\ net = [get |-> {}, put |-> {}]
    /\ mpc = "mkdir"
    /\ mm = TRUE
    /\ pc = "library"
    /\ argv = [dryRun |-> TRUE, downloadMedia |-> FALSE, uploadMedia |-> FALSE]
    /\ env = [input |-> "none", channel |-> FALSE, firebase |-> "nocreds"]
    /\ wpData = NoData
    /\ dryRun = TRUE
    /\ fb = [app |-> FALSE, db |-> FALSE]
    /\ pages = <<>>
    /\ menuSections = <<>>
    /\ out = NoOutput
    /\ store = EmptyStore
    /\ pos = 0
    /\ exit = "running"
    /\ call = NoCall
    /\ ret = <<>>
    /\ first = [urlMap |-> <<>>, net |-> net, run |-> 1, stats |-> NewStats,
                task |-> <<>>, disk |-> disk]

\* the same migrate() call executed once more from the same start
OtherExecution ==
    /\ mpc = "returned"
    /\ first.run = 1
    /\ first' = [urlMap |-> urlMap, net |-> net, run |-> 2, stats |-> stats,
                 task |-> task, disk |-> first.disk]
    /\ disk' = first.disk
    /\ stats' = NewStats
    /\ urlMap' = <<>>
    /\ task' = Pending(atts)
    /\ cur' = 0
    /\ net' = [get |-> {}, put |-> {}]
    /\ mpc' = "mkdir"
    /\ UNCHANGED <<mopts, storage, atts, ovars, call, ret>>

NextOrder == MediaStep \/ OtherExecution

SpecOrder == InitOrder /\ [][NextOrder]_vars

(***************************************************************************)
(* Properties of MediaMigrator.migrate (SpecMedia).                        *)
(***************************************************************************)
InFlight == {k \in 1..Len(task) : task[k].st \notin {"pending", "done"}}

Ended(how) == {k \in 1..Len(task) : task[k].st = "done" /\ task[k].out = how}

\* C1: when migrate() returns, total = N and downloaded + skipped + failed = N,
\* with uploaded <= downloaded, for every list of N attachments and every
\* combination of download, file-write and upload failures.
C1_StatsConservation ==
    mpc = "returned" =>
        /\ stats.total = Len(atts)
        /\ stats.downloaded + stats.skipped + stats.failed = Len(atts)
        /\ stats.uploaded <= stats.downloaded

\* C5: an attachment whose processing raises adds exactly one to failed and
\* exactly one {url, error} entry for that attachment, and leaves every other
\* attachment as it is; the errors list is always as long as failed, which is
\* the number of attachments that ended in the catch block; migrate() never
\* rejects once attachments are being processed; when the attachments of a
\* chunk have all ended, failed or not, the chunk loop can go on; migrate()
\* returns only when every attachment has been processed.
C5_FailureStep ==
    \A i \in 1..Len(task) :
        (task[i].out # "failed" /\ task'[i].out = "failed") =>
            /\ stats'.failed = stats.failed + 1
            /\ Len(stats'.errors) = Len(stats.errors) + 1
            /\ stats'.errors[Len(stats'.errors)].url = atts[i].url
            /\ SubSeq(stats'.errors, 1, Len(stats.errors)) = stats.errors
            /\ \A j \in 1..Len(task) : j # i => task'[j] = task[j]
            /\ mpc' = "running"

C5_FailureState ==
    /\ Len(stats.errors) = stats.failed
    /\ stats.failed = Cardinality(Ended("failed"))
    /\ mpc = "rejected" => \A k \in 1..Len(task) : task[k].st = "pending"
    /\ mpc = "returned" => \A k \in 1..Len(task) : task[k].st = "done"
    /\ (mpc = "running" /\ InFlight = {}) => ENABLED MediaStep

C5_FailuresAreRecorded == []C5_FailureState /\ [][C5_FailureStep]_vars

\* an attachment of the first chunk failed, one of the same chunk and one of
\* a later chunk were migrated after it, and migrate() returned
C5_Witness ==
    /\ mpc = "returned"
    /\ Len(atts) = 3 /\ mopts.concurrency = 2
    /\ task[1].out = "failed" /\ task[2].out = "ok" /\ task[3].out = "ok"
    /\ stats.errors = <<[url |-> atts[1].url, error |-> "download"]>>
    /\ urlMap # <<>> /\ urlMap[1][1] = atts[2].url

DistinctSources ==
    \A i, j \in 1..Len(atts) :
        i # j => atts[i].id # atts[j].id
                 /\ (atts[i].url # NoUrl => atts[i].url # atts[j].url)

\* the URL an attachment that went through is mapped to
NewUrlOf(k) ==
    IF task[k].out = "existed"
    THEN IF storage THEN getStorageUrl(task[k].path) ELSE localUrl(task[k].path)
    ELSE IF storage THEN uploadedUrl(task[k].path) ELSE localUrl(task[k].path)

\* C6: after migrate() over attachments with pairwise distinct ids and source
\* URLs, the keys of the URL map are exactly the source URL and the id of the
\* attachments that were downloaded (and uploaded, with storage) or skipped as
\* existing; both keys of an attachment hold its new URL; failed attachments
\* and attachments without URL contribute nothing, so the map has two entries
\* per attachment that went through.
C6_UrlMapKeys ==
    (mpc = "returned" /\ DistinctSources) =>
        LET through == Ended("ok") \cup Ended("existed")
        IN  /\ MapKeys(urlMap) = {atts[k].url : k \in through}
                                  \cup {atts[k].id : k \in through}
            /\ \A k \in through :
                  /\ MapValue(urlMap, atts[k].url) = NewUrlOf(k)
                  /\ MapValue(urlMap, atts[k].id) = NewUrlOf(k)
            /\ Len(urlMap) = 2 * Cardinality(through)
            /\ \A k \in Ended("failed") \cup Ended("nourl") :
                  atts[k].url \notin MapKeys(urlMap) /\ atts[k].id \notin MapKeys(urlMap)

\* three attachments of which the second failed to download: four entries
C6_Witness ==
    /\ mpc = "returned" /\ DistinctSources /\ Len(atts) = 3
    /\ task[1].out = "ok" /\ task[2].out = "failed" /\ task[3].out = "ok"
    /\ stats.downloaded = 2 /\ stats.failed = 1
    /\ Len(urlMap) = 4

\* C7: the chunks are consecutive slices, in list order, of at most
\* `concurrency` attachments that together hold every attachment once; no
\* attachment of a chunk is started before every attachment of the chunks
\* before it has finished; at most `concurrency` attachments are in flight;
\* an attachment that has finished is never processed again.
C7_ChunkState ==
    LET cs == chunks
        in(c) == {cs[c][k] : k \in 1..Len(cs[c])}
    IN  /\ \A c \in 1..Len(cs) : Len(cs[c]) \in 1..mopts.concurrency
        /\ \A c \in 1..Len(cs) : \A k \in 1..Len(cs[c]) :
              cs[c][k] = (c - 1) * mopts.concurrency + k
        /\ UNION {in(c) : c \in 1..Len(cs)} = 1..Len(atts)
        /\ \A c, d \in 1..Len(cs) : \A i \in in(c), j \in in(d) :
              (c < d /\ task[j].st # "pending") => task[i].st = "done"
        /\ cur \in 0..Len(cs)
        /\ \A k \in 1..Len(task) : task[k].st # "pending" =>
              \E c \in 1..cur : k \in in(c)
        /\ Cardinality(InFlight) <= mopts.concurrency
        /\ mpc = "returned" => \A k \in 1..Len(task) : task[k].st = "done"

C7_ChunkStep ==
    \A k \in 1..Len(task) :
        /\ task[k].st = "done" => task'[k] = task[k]
        /\ task[k].st # "pending" => task'[k].st # "pending"

C7_ChunksAreSequential == []C7_ChunkState /\ [][C7_ChunkStep]_vars

\* the third of three attachments is in flight in the second chunk of width 2
C7_Witness ==
    /\ mpc = "running" /\ Len(atts) = 3 /\ mopts.concurrency = 2 /\ cur = 2
    /\ task[1].st = "done" /\ task[2].st = "done" /\ task[3].st = "download"

(***************************************************************************)
(* Properties of the orchestrator (Spec).                                  *)
(***************************************************************************)
NoMediaFlag == ~argv.downloadMedia /\ ~argv.uploadMedia

Running == pc \notin {"done", "failed"}

ValidInput == env.input = "ok" /\ env.channel

\* a step of the run other than an abort
NoFailStep == Next /\ exit' # "exit1"

\* the run is not forced to abort: some step other than an abort can be taken
\* (Clean and Menu have no guard but their stage and leave exit alone)
CanProceed == pc \in {"clean", "menu"} \/ ENABLED NoFailStep

PreviewsWritten == pc \in {"commit", "commitMenus", "commitPages", "commitMedia", "done"}

\* C2: while dry-run is in effect no write is added to a batch and no commit
\* is issued; with no media flag no download and no upload is requested
\* either, the run is never forced to abort (it fails only when the input or
\* the file system fails), and when it exits 0 the report is written.
C2_DryRunWritesNothing ==
    /\ dryRun => store = EmptyStore
    /\ (dryRun /\ NoMediaFlag) =>
          /\ net = [get |-> {}, put |-> {}]
          /\ mpc = "idle"
          /\ exit = "exit0" =>
                /\ out.report # <<>>
                /\ out.report[1].stats.pages = Len(wpData.pages) + Len(wpData.posts)
          /\ (ValidInput /\ Running) => CanProceed

\* a run downgraded to dry-run, of an export with a page, has exited 0
C2_Witness ==
    /\ exit = "exit0" /\ dryRun /\ ~argv.dryRun /\ NoMediaFlag
    /\ Len(pages) >= 1 /\ out.report # <<>> /\ out.previews # <<>>
    /\ menuSections # <<>>

\* the PageDocuments of the run without a media flag on the same export
docsNoMedia == menuStage(wpData.menus, 1, <<>>, transform(wpData, FALSE, <<>>)).pages

previewsOf(docs) ==
    IF docs = <<>> THEN <<>>
    ELSE writtenPreviews(docs, 1, Len(docs), <<>>)[Len(docs)]

reportPagesOf(docs) ==
    [k \in 1..Len(docs) |->
        [title |-> docs[k].title, slug |-> docs[k].slug, status |-> docs[k].status]]

\* s has an occurrence of the non-empty string u
Occurs(u, s) == \E k \in 1..Len(s) : startsWith(SubSeq(s, k, Len(s)), u)

C4_CredentialFallback ==
    (~argv.dryRun /\ env.firebase # "ok" /\ ValidInput) =>
        /\ (Running /\ pc \notin {"start", "outdir", "initFirebase"}) => dryRun
        /\ (Running /\ mpc # "rejected") => CanProceed
        /\ exit = "exit0" => out.report # <<>> /\ store = EmptyStore

Rank(p) ==
    CASE p = "start" -> 0
      [] p = "outdir" -> 1
      [] p = "initFirebase" -> 2
      [] p = "parse" -> 3
      [] p = "mediaStage" -> 4
      [] p = "media" -> 5
      [] p = "clean" -> 6
      [] p = "menu" -> 7
      [] p = "report" -> 8
      [] p = "contentDir" -> 9
      [] p = "preview" -> 10
      [] p = "commit" -> 11
      [] p = "commitMenus" -> 12
      [] p = "commitPages" -> 13
      [] p = "commitMedia" -> 14
      [] OTHER -> 15

\* C8: the stages follow each other in the order parse, media migration
\* (only with a media flag), clean/transform, menu assignment, report and
\* previews, commit (only when not dry-run); attachments are processed only
\* during the media stage, so none is in flight once page content is cleaned;
\* documents are built only during clean and menu assignment, files written
\* only during the report and preview stage, and the store is written only
\* after the report and every preview file are on disk.
C8_StageState ==
    /\ (mpc \in {"mkdir", "running"} \/ InFlight # {}) =>
          pc = "media" /\ (argv.downloadMedia \/ argv.uploadMedia)
    /\ (Rank(pc) \in 6..14 /\ mm) => mpc = "returned" /\ InFlight = {}
    /\ (Rank(pc) \in 6..14 /\ ~mm) => mpc = "idle" /\ NoMediaFlag
    /\ pages # <<>> => Rank(pc) >= 6
    /\ out # NoOutput => Rank(pc) >= 8
    /\ Rank(pc) \in 11..14 => ~dryRun
    /\ store # EmptyStore =>
          /\ ~dryRun
          /\ out.report # <<>>
          /\ MapKeys(out.previews) = {pages[k].slug : k \in 1..Len(pages)}

C8_StageStep ==
    /\ pc' # pc => Rank(pc') > Rank(pc)
    /\ <<task', urlMap', stats', disk', net'>> # <<task, urlMap, stats, disk, net>>
          => pc \in {"mediaStage", "media"}
    /\ <<pages', menuSections'>> # <<pages, menuSections>> => pc \in {"clean", "menu"}
    /\ out' # out => pc \in {"report", "preview"}
    /\ store' # store => pc \in {"commit", "commitMenus", "commitPages", "commitMedia"}

C8_StagesInOrder == []C8_StageState /\ [][C8_StageStep]_vars

\* a real run with media that has reached the page writes
C8_Witness ==
    /\ pc = "commitPages" /\ mm /\ ~dryRun
    /\ Len(atts) = 2 /\ stats.downloaded >= 1 /\ stats.failed >= 1
    /\ store.committed # <<>>

\* C9: once the report and preview stage is over, migration-report.json is
\* written and there is one preview file per PageDocument, holding that
\* document's content.
C9_OnePreviewPerDocument ==
    PreviewsWritten =>
        /\ out.report # <<>>
        /\ Len(out.previews) = Len(pages)
        /\ \A k \in 1..Len(pages) :
              MapValue(out.previews, pages[k].slug) = pages[k].content

AllBatches == store.committed \o (IF store.open # <<>> THEN <<store.open>> ELSE <<>>)

RECURSIVE Flatten(_)
Flatten(batches) ==
    IF batches = <<>> THEN <<>> ELSE batches[1] \o Flatten(Tail(batches))

CollRank(c) == CASE c = "menuSections" -> 1 [] c = "pages" -> 2 [] OTHER -> 3

BatchesOf(c) == SelectSeq(AllBatches, LAMBDA b : b[1].coll = c)

\* C10: the menu sections are written in one batch, committed before any page
\* write; the pages are written in document order, each once, in batches of
\* at most maxBatchSize writes, every page batch but the last being full; no
\* empty batch is committed; media metadata batches come after the last page
\* batch and only with --upload-media; when the stage ends every
\* PageDocument has been written and committed.
C10_BatchedCommit ==
    LET writes == Flatten(AllBatches)
        pageBatches == BatchesOf("pages")
        pageWrites == Flatten(pageBatches)
    IN  /\ \A k \in 1..Len(AllBatches) :
              /\ Len(AllBatches[k]) >= 1
              /\ AllBatches[k][1].coll # "menuSections" =>
                    Len(AllBatches[k]) <= maxBatchSize
              /\ \A j \in 1..Len(AllBatches[k]) :
                    AllBatches[k][j].coll = AllBatches[k][1].coll
        /\ \A k \in 1..(Len(AllBatches) - 1) :
              CollRank(AllBatches[k][1].coll) <= CollRank(AllBatches[k + 1][1].coll)
        /\ Len(BatchesOf("menuSections")) <= 1
        /\ \A k \in 1..Len(BatchesOf("menuSections")) :
              BatchesOf("menuSections")[k] =
                  [j \in 1..Len(menuSections) |-> [coll |-> "menuSections", k |-> j]]
        /\ (pageWrites # <<>> /\ menuSections # <<>>) =>
              /\ store.committed # <<>>
              /\ store.committed[1][1].coll = "menuSections"
        /\ pageWrites = [j \in 1..Len(pageWrites) |-> [coll |-> "pages", k |-> j]]
        /\ Len(pageWrites) <= Len(pages)
        /\ \A k \in 1..(Len(pageBatches) - 1) : Len(pageBatches[k]) = maxBatchSize
        /\ BatchesOf("media") # <<>> =>
              /\ argv.uploadMedia
              /\ Len(pageWrites) = Len(pages)
              /\ Len(store.committed) >= Len(BatchesOf("menuSections")) + Len(pageBatches)
        /\ pc \in {"commitMenus", "commitPages", "commitMedia"} => store.open # <<>>
        /\ store.calls = Len(AllBatches)
        /\ (pc = "done" /\ ~dryRun) =>
              /\ store.open = <<>>
              /\ Len(pageWrites) = Len(pages)
              /\ Len(BatchesOf("menuSections")) = (IF menuSections = <<>> THEN 0 ELSE 1)

\* a finished real run of more than two full batches of pages, with a menu
\* section and media metadata
C10_Witness ==
    /\ pc = "done" /\ ~dryRun
    /\ Len(pages) > 2 * maxBatchSize
    /\ Len(BatchesOf("menuSections")) = 1
    /\ Len(BatchesOf("pages")) = 3
    /\ Len(BatchesOf("media")) = 1

(***************************************************************************)
(* C11: when a batch commit throws in the commit stage, the process exits  *)
(* with code 1 and the store is left as it was: the batches committed      *)
(* before stay committed (the list of committed batches only ever grows    *)
(* by the batch that was open, nothing is deleted or rolled back), and no  *)
(* write of a later batch is issued or committed (the failing batch is     *)
(* the only batch issued beyond the committed ones).                       *)
(***************************************************************************)
InCommit == pc \in {"commitMenus", "commitPages", "commitMedia"}

C11_CommitStep ==
    /\ \/ store'.committed = store.committed
       \/ store'.committed = Append(store.committed, store.open)
    /\ InCommit =>
          \/ store'.committed = Append(store.committed, store.open)
          \/ store' = store /\ pc' = "failed" /\ exit' = "exit1" /\ pos' = pos

C11_FailedState ==
    (pc = "failed" /\ store.calls > 0) =>
        /\ exit = "exit1"
        /\ store.open # <<>>
        /\ store.calls = Len(store.committed) + 1

C11_CommitFailureStops == []C11_FailedState /\ [][C11_CommitStep]_vars

\* the menu-section batch is committed, the first page batch fails and
\* pages of a later batch are left unwritten
C11_Witness ==
    /\ pc = "failed"
    /\ Len(store.committed) >= 1
    /\ store.open # <<>> /\ store.open[1].coll = "pages"
    /\ pos <= Len(pages)

(***************************************************************************)
(* C12: when the input file is missing (or not named), or the parsed       *)
(* document has no rss/channel element, the run ends with exit code 1 and  *)
(* never gets past parsing: no report file, no preview file, no store      *)
(* write, no media migrator and no download or upload request.             *)
(***************************************************************************)
C12_InvalidInputAborts ==
    (env.input # "ok" \/ ~env.channel) =>
        /\ out = NoOutput
        /\ store = EmptyStore
        /\ net = [get |-> {}, put |-> {}]
        /\ ~mm /\ mpc = "idle"
        /\ pc \in {"start", "outdir", "initFirebase", "parse", "failed"}
        /\ env.input # "ok" => pc \in {"start", "failed"}
        /\ pc = "failed" => exit = "exit1"

\* a real run (Firestore initialised, --download-media) on a readable file
\* without a channel has been aborted by the parser
C12_Witness ==
    /\ pc = "failed" /\ exit = "exit1"
    /\ env.input = "ok" /\ ~env.channel
    /\ argv.downloadMedia /\ ~dryRun /\ fb.db

(***************************************************************************)
(* C13: clean is idempotent: for every input and every cleaner             *)
(* configuration, clean applied to the output of clean returns that        *)
(* output unchanged.                                                       *)
(***************************************************************************)
C13_CleanIdempotent ==
    (call.fn = "clean" /\ Len(ret) = 2) => ret[2] = ret[1]

\* what the widget's converter looks for inside the widget
expectedStructure(type, widget) ==
    CASE type = "heading" -> byClass(widget, <<"elementor-", "heading-title">>) # <<>>
      [] type = "text-editor" -> byClass(widget, <<"elementor-", "text-editor">>) # <<>>
      [] type \in {"image", "image-gallery"} -> byTag(widget, {"img"}) # <<>>
      [] type = "video" -> byTag(widget, {"iframe"}) # <<>>
      [] type = "button" -> byTag(widget, {"a"}) # <<>>
      [] type = "icon-list" -> byClass(widget, <<"elementor-", "icon-list-item">>) # <<>>
      [] type = "accordion" -> byClass(widget, <<"elementor-", "accordion-item">>) # <<>>
      [] type = "tabs" -> byClass(widget, <<"elementor-", "tab-title">>) # <<>>
      [] type = "image-box" ->
            \/ byTag(widget, {"img"}) # <<>>
            \/ byClass(widget, <<"elementor-", "image-box-title">>) # <<>>
            \/ byClass(widget, <<"elementor-", "image-box-description">>) # <<>>
      [] OTHER -> FALSE

\* the input is one widget-tagged element without that structure
LoneWidgetWithoutStructure ==
    /\ call.fn = "clean"
    /\ Len(call.html) = 1
    /\ hasAttribute(call.html[1], "data-widget_type")
    /\ ~expectedStructure(widgetTypeOf(call.html[1]), call.html[1])

visibleText(nodes) == Filter(textContent(nodes), {"x"})

mediaTags(nodes) ==
    [k \in 1..Len(SelectSeq(descendants(nodes), LAMBDA d : d.tag \in embeddedMedia)) |->
        SelectSeq(descendants(nodes), LAMBDA d : d.tag \in embeddedMedia)[k].tag]

(***************************************************************************)
(* C14: a widget-tagged element of any of the ten registered types or of   *)
(* an unregistered type that lacks the inner structure its converter       *)
(* expects is left as it is by the widget-conversion step, and its         *)
(* content (its visible text and its embedded media, as they are after     *)
(* the disallowed elements were stripped) is present in the output of      *)
(* clean: the widget is not replaced by an empty element and not deleted.  *)
(***************************************************************************)
C14_WidgetWithoutStructureIsKept ==
    (LoneWidgetWithoutStructure /\ Len(ret) >= 1) =>
        LET stripped == removeUnwantedNodes(call.html)
        IN  /\ convertWidgets(stripped) = stripped
            /\ visibleText(ret[1]) = visibleText(stripped)
            /\ mediaTags(ret[1]) = mediaTags(stripped)

\* the href and src attributes of a fragment, in document order
urlAttributes(nodes) ==
    LET holders == SelectSeq(descendants(nodes),
                             LAMBDA d : hasAttribute(d, "href") \/ hasAttribute(d, "src"))
    IN  [k \in 1..Len(holders) |->
            [tag |-> holders[k].tag,
             url |-> IF hasAttribute(holders[k], "href") THEN getAttribute(holders[k], "href")
                     ELSE getAttribute(holders[k], "src")]]

\* the fragment the URL rewriting step is given
beforeFixUrls(opt, html) ==
    cleanAttributes(opt, unwrapDivs(opt, convertElementorWidgets(removeUnwantedNodes(html))))

(***************************************************************************)
(* C15: with an old and a new base URL configured, every href and src      *)
(* value (of any element) that started with the old base has exactly that  *)
(* prefix replaced by the new base in the output of clean, and every       *)
(* href/src value that started neither with the old base nor with "/" is   *)
(* unchanged; and the rewriting step does nothing only when both base URLs *)
(* are unset: with one of them set, a link or image whose URL starts with  *)
(* the configured old base or with a single "/" does not keep its URL.     *)
(***************************************************************************)
C15_UrlsRewritten ==
    (call.fn = "clean" /\ Len(ret) >= 1) =>
        LET opt == call.options
            before == urlAttributes(beforeFixUrls(opt, call.html))
            after == urlAttributes(ret[1])
        IN  /\ Len(after) = Len(before)
            /\ (opt.baseUrl # <<>> /\ opt.newBaseUrl # <<>>) =>
                  \A k \in 1..Len(before) :
                      /\ startsWith(before[k].url, opt.baseUrl) =>
                            after[k].url = opt.newBaseUrl
                                \o SubSeq(before[k].url, Len(opt.baseUrl) + 1, Len(before[k].url))
                      /\ (~startsWith(before[k].url, opt.baseUrl)
                          /\ ~startsWith(before[k].url, <<"/">>)) =>
                            after[k].url = before[k].url
            /\ (opt.baseUrl # <<>> \/ opt.newBaseUrl # <<>>) =>
                  \A k \in 1..Len(before) :
                      (/\ before[k].tag \in {"a", "img"}
                       /\ \/ opt.baseUrl # <<>> /\ startsWith(before[k].url, opt.baseUrl)
                          \/ /\ startsWith(before[k].url, <<"/">>)
                             /\ ~startsWith(before[k].url, <<"/", "/">>))
                      => after[k].url # before[k].url

(***************************************************************************)
(* C16: after clean every <img> of the output has an alt attribute         *)
(* (possibly empty) and loading="lazy", whether it comes from the original *)
(* markup or from a widget converter, and a non-empty alt text of the      *)
(* input is kept: an image alone keeps its alt text, and no image of the   *)
(* output has an alt text that is not in the input.                        *)
(***************************************************************************)
imagesOf(nodes) == SelectSeq(descendants(nodes), LAMBDA d : d.tag = "img")

C16_ImagesHaveAltAndLazy ==
    (call.fn = "clean" /\ Len(ret) >= 1) =>
        /\ \A img \in Range(imagesOf(ret[1])) :
              /\ hasAttribute(img, "alt")
              /\ getAttribute(img, "loading") = <<"lazy">>
              /\ getAttribute(img, "alt") \in
                    {<<>>} \cup {getAttribute(i, "alt") : i \in Range(imagesOf(call.html))}
        /\ (Len(call.html) = 1 /\ call.html[1].tag = "img") =>
              /\ Len(ret[1]) = 1 /\ ret[1][1].tag = "img"
              /\ getAttribute(ret[1][1], "alt") = getAttribute(call.html[1], "alt")

(***************************************************************************)
(* C17: mapStatus is total: publish gives published; draft, pending,       *)
(* private and future give draft; trash gives archived; every other input  *)
(* (an unrecognised string, null or undefined) gives draft; so the result  *)
(* is always one of published, draft, archived.                            *)
(***************************************************************************)
C17_MapStatusTotal ==
    (call.fn = "mapStatus" /\ ret # <<>>) =>
        /\ ret[1] \in {"published", "draft", "archived"}
        /\ ret[1] = CASE call.wpStatus = "publish" -> "published"
                      [] call.wpStatus = "trash" -> "archived"
                      [] OTHER -> "draft"

(***************************************************************************)
(* Menu assignment, read off the state after the menu stage.               *)
(***************************************************************************)
AfterMenu ==
    pc \in {"report", "contentDir", "preview", "commit", "commitMenus", "commitPages",
            "commitMedia", "done"}

\* the top-level items of type 'page' in the order the loops visit them,
\* each with the name of its menu
RECURSIVE PageItems(_)
PageItems(menus) ==
    IF menus = <<>> THEN <<>>
    ELSE [k \in 1..Len(SelectSeq(menus[1].items, LAMBDA x : x.objectType = "page")) |->
             [menu |-> menus[1].name,
              item |-> SelectSeq(menus[1].items, LAMBDA x : x.objectType = "page")[k]]]
         \o PageItems(Tail(menus))

Matches(doc, item) == doc.slug = stripSlashes(item.url) \/ doc.title = item.title

\* the first document, in document order, that matches the item (0: none)
FirstMatch(item) ==
    IF \E k \in 1..Len(pages) : Matches(pages[k], item)
    THEN CHOOSE k \in 1..Len(pages) :
            Matches(pages[k], item) /\ \A j \in 1..(k - 1) : ~Matches(pages[j], item)
    ELSE 0

\* the items whose assignment document k receives
ItemsOf(k) == {i \in 1..Len(PageItems(wpData.menus)) : FirstMatch(PageItems(wpData.menus)[i].item) = k}

\* menuSection and menuOrder as the transform stage left them
Untouched(k) ==
    IF k <= Len(wpData.pages)
    THEN pages[k].menuSection = NoSection /\ pages[k].menuOrder = wpData.pages[k].menuOrder
    ELSE pages[k].menuSection = NewsSection /\ pages[k].menuOrder = 0

(***************************************************************************)
(* C18: for every top-level menu item of type 'page' the document that     *)
(* receives the assignment is the first document, in document order,       *)
(* whose slug is the item's URL without its leading and trailing "/" or    *)
(* whose title is the item's title; that document ends with menuSection =  *)
(* slugified menu name and menuOrder = the item's order; a document        *)
(* matched by no item keeps its menuSection and its parsed menuOrder.      *)
(***************************************************************************)
C18_MenuAssignment ==
    AfterMenu =>
        /\ \A i \in 1..Len(PageItems(wpData.menus)) :
              LET it == PageItems(wpData.menus)[i]
              IN  FirstMatch(it.item) # 0 =>
                      /\ pages[FirstMatch(it.item)].menuSection = slugify(it.menu)
                      /\ pages[FirstMatch(it.item)].menuOrder = it.item.order
        /\ \A k \in 1..Len(pages) : ItemsOf(k) = {} => Untouched(k)

(***************************************************************************)
(* C18 as amended: the document an item assigns to is the first match,     *)
(* the item changes no other document, and when several items match the   *)
(* same document the item visited last (the highest order of the menu)     *)
(* decides: the document ends with the slugified name of that item's menu  *)
(* and with that item's order; a document matched by no item keeps its     *)
(* menuSection and its parsed menuOrder.                                   *)
(***************************************************************************)
C18_LastMatchingItemDecides ==
    AfterMenu =>
        \A k \in 1..Len(pages) :
            IF ItemsOf(k) = {} THEN Untouched(k)
            ELSE LET last == CHOOSE i \in ItemsOf(k) : \A j \in ItemsOf(k) : j <= i
                     it == PageItems(wpData.menus)[last]
                 IN  /\ pages[k].menuSection = slugify(it.menu)
                     /\ pages[k].menuOrder = it.item.order

\* two items were assigned to the first of two documents: one of the items
\* matches a later document too, and the later item's order is the one kept
C18_Witness ==
    /\ AfterMenu
    /\ \E k \in 1..Len(pages) :
          /\ Cardinality(ItemsOf(k)) = 2
          /\ \E i \in ItemsOf(k), j \in (k + 1)..Len(pages) :
                 Matches(pages[j], PageItems(wpData.menus)[i].item)
          /\ \E i \in ItemsOf(k) : pages[k].menuOrder # PageItems(wpData.menus)[i].item.order

\* the menus the parser found in the export (the default 'Main Menu' of an
\* export without top-level items is not one)
discoveredMenus ==
    IF wpData.menus = <<[name |-> MainMenu, items |-> <<>>]>> THEN <<>> ELSE wpData.menus

(***************************************************************************)
(* C19: the orchestrator creates exactly one MenuSection for each menu     *)
(* the parser discovered, its id the slugified menu name, the order        *)
(* values 0, 1, ..., n-1 in discovery sequence, the ids pairwise distinct. *)
(***************************************************************************)
C19_OneSectionPerMenu ==
    AfterMenu =>
        /\ Len(menuSections) = Len(discoveredMenus)
        /\ \A k \in 1..Len(menuSections) :
              /\ menuSections[k].id = slugify(discoveredMenus[k].name)
              /\ menuSections[k].order = k - 1
        /\ \A j, k \in 1..Len(menuSections) :
              menuSections[j].id = menuSections[k].id => j = k

\* C20: with skipExisting, an attachment whose local file exists causes no
\* HTTP request, is counted as skipped and not as downloaded, and has its
\* source URL and its id in the URL map; a second migrate() on the same
\* attachments after a run without failure downloads nothing and records
\* for every key the new URL the first run recorded, with or without a
\* storage bucket.
C20_Existed == {i \in 1..Len(task) : task[i].out = "existed"}

C20_RerunRecordsSameUrls ==
    /\ \A i \in C20_Existed :
          /\ i \notin net.get
          /\ atts[i].url \in MapKeys(urlMap) /\ atts[i].id \in MapKeys(urlMap)
    /\ stats.skipped >= Cardinality(C20_Existed)
    /\ stats.downloaded + Cardinality(C20_Existed) <= Len(atts)
    /\ (first.run = 2 /\ mpc = "returned") =>
          /\ net.get = {}
          /\ stats.downloaded = 0
          /\ MapKeys(urlMap) = MapKeys(first.urlMap)
          /\ \A key \in MapKeys(first.urlMap) :
                MapValue(urlMap, key) = MapValue(first.urlMap, key)

\* C21: exportUrlMap followed by importUrlMap into a fresh MediaMigrator is
\* a round trip for lookups: for every URL and every id, number or text,
\* getNewUrl on the importing migrator returns what getNewUrl on the
\* original returns, the new URL for a key of the original map and null
\* for a key it did not have.
LookupKeys ==
    {<<"h", "/", "a">>, <<"h", "/", "b">>, <<"__proto__">>,
     <<"#", "1">>, <<"#", "2">>, <<"1">>, <<"2">>}

C21_ExportImportRoundTrip ==
    call.fn = "imported" =>
        \A key \in LookupKeys :
            /\ key \in MapKeys(urlMap) => getNewUrl(ret[2], key) = MapValue(urlMap, key)
            /\ getNewUrl(urlMap, key) = <<>> => getNewUrl(ret[2], key) = <<>>

\* C22: when media migration ran, the content of a PageDocument is the
\* cleaner's output in which every occurrence of the old URL of an
\* attachment in the URL map is replaced by that attachment's own new URL
\* and nothing else is changed: a content that is the URL of a migrated
\* attachment becomes its new URL, a content that mentions no key is kept,
\* the URL of an attachment absent from the map stays wherever it occurred,
\* and no http key of the map occurs in the final content.
C22_Keys == {key \in MapKeys(urlMap) : IsHttpString(key)}

C22_FinalUrlPass ==
    ret # <<>> =>
        LET cleaned == clean(call.content)
        IN  /\ \A key \in C22_Keys : cleaned = key => ret[1] = MapValue(urlMap, key)
            /\ (\A key \in C22_Keys : ~Occurs(key, cleaned)) => ret[1] = cleaned
            /\ \A k \in 1..Len(atts) :
                  (atts[k].url \notin MapKeys(urlMap) /\ Occurs(atts[k].url, cleaned))
                  => Occurs(atts[k].url, ret[1])
            /\ \A key \in C22_Keys : ~Occurs(key, ret[1])

TreeReturned == call.fn = "buildMenuStructure" /\ call.at = "returned"

\* the objects of the top-level item lists of the returned menus
TopObjects(t) == UNION {Range(t.menus[k].items) : k \in 1..Len(t.menus)}

ChildObjects(t, S) == UNION {Range(t.children[i]) : i \in S}

\* the objects reachable from S through children arrays
RECURSIVE Reach(_, _)
Reach(t, S) == IF ChildObjects(t, S) \subseteq S THEN S
               ELSE Reach(t, S \cup ChildObjects(t, S))

\* a list of objects in ascending order, equal orders in source order
SortedStable(items, s) ==
    \A p \in 1..Len(s), q \in 1..Len(s) :
        p < q => \/ items[s[p]].order < items[s[q]].order
                 \/ items[s[p]].order = items[s[q]].order /\ s[p] < s[q]

\* C23: in the menu tree buildMenuStructure returns, the item list of every
\* level (top-level items, their children, the children of every deeper
\* descendant) is sorted by order ascending, equal orders in source order.
C23_EveryLevelSorted ==
    TreeReturned =>
        /\ \A k \in 1..Len(ret[1].menus) :
              SortedStable(call.menuItems, ret[1].menus[k].items)
        /\ \A i \in Reach(ret[1], TopObjects(ret[1])) :
              SortedStable(call.menuItems, ret[1].children[i])

\* the object named by the parentId of object i, 0 when it is "0" or names
\* no item
ParentOf(items, i) ==
    IF items[i].parentId = "0" THEN 0
    ELSE IF \E k \in 1..Len(items) : IdKey(items[k].id) = items[i].parentId
         THEN CHOOSE k \in 1..Len(items) : IdKey(items[k].id) = items[i].parentId
         ELSE 0

\* the objects on the parentId chain of object i, in at most n steps
RECURSIVE Ancestors(_, _, _)
Ancestors(items, i, n) ==
    IF n = 0 \/ ParentOf(items, i) = 0 THEN {}
    ELSE {ParentOf(items, i)} \cup Ancestors(items, ParentOf(items, i), n - 1)

\* the parentId chain of object i ends at a top-level item
Rooted(items, i) ==
    \E r \in {i} \cup Ancestors(items, i, Len(items)) : items[r].parentId = "0"

\* how often object i is held by the top-level lists and by the children
\* arrays of the objects of S
Holders(t, S, i) ==
    Cardinality({<<k, j>> \in (1..Len(t.menus)) \X (1..Len(t.children)) :
                    j \in 1..Len(t.menus[k].items) /\ t.menus[k].items[j] = i})
    + Cardinality({<<p, j>> \in S \X (1..Len(t.children)) :
                    j \in 1..Len(t.children[p]) /\ t.children[p][j] = i})

C24_TreeIsSound ==
    TreeReturned =>
        LET t == ret[1]
            all == Reach(t, TopObjects(t))
        IN  /\ \A i \in all : i \notin Reach(t, Range(t.children[i]))
            /\ \A i \in all : Holders(t, all, i) = 1
            /\ \A i \in 1..Len(call.menuItems) :
                  i \in all <=> Rooted(call.menuItems, i)

EmptyReturned == call.fn = "returned" /\ "html" \in DOMAIN call

OnlyWhitespace(n) == Range(textContent(n.kids)) \subseteq Whitespace

HasMedia(n) == \E d \in Range(descendants(n.kids)) : d.tag \in embeddedMedia

\* the elements with non-white-space text or embedded media below them, in
\* document order, each as its tag, its classes and its text without
\* white space
Substantial(nodes) ==
    LET keep == SelectSeq(descendants(nodes),
                          LAMBDA n : IsElement(n) /\ (~OnlyWhitespace(n) \/ HasMedia(n)))
    IN  [k \in 1..Len(keep) |->
            [tag |-> keep[k].tag, cls |-> keep[k].cls,
             text |-> SelectSeq(textContent(keep[k].kids), LAMBDA c : c \notin Whitespace)]]

C25_NoEmptyElementLeft ==
    EmptyReturned =>
        /\ \A n \in Range(descendants(ret[1])) :
              ~(n.tag \in Range(emptyTagList) /\ OnlyWhitespace(n) /\ ~HasMedia(n))
        /\ Substantial(ret[1]) = Substantial(call.html)

\* C25: the empty-element removal step terminates for every finite DOM
\* tree; when it returns no p, div, span, li, ul, ol, section or article
\* element is left that has only white-space text and no img, iframe,
\* video, audio, canvas or svg below it, and no element that has other text
\* or such media below it has been removed.
C25_TerminatesWithoutEmptyElements == []C25_NoEmptyElementLeft /\ <>EmptyReturned

\* the step returned after removing an element that held another empty
\* element, and kept an element with embedded media and no text
C25_Witness ==
    /\ EmptyReturned
    /\ \E n \in Range(descendants(call.html)) :
          /\ n.tag \in Range(emptyTagList) /\ OnlyWhitespace(n) /\ ~HasMedia(n)
          /\ \E d \in Range(n.kids) : d.tag \in Range(emptyTagList)
    /\ \E n \in Range(descendants(ret[1])) :
          n.tag \in Range(emptyTagList) /\ OnlyWhitespace(n) /\ HasMedia(n)

\* C26: every download of an attachment eventually settles (it succeeds on
\* a 200 response, follows a 3xx response with a Location header, fails on
\* another status, a request error or a timeout), so when every single
\* request is answered migrate() eventually returns for every finite
\* attachment list, redirecting servers included.
C26_DownloadsSettle ==
    /\ \A i \in 1..MaxDownloads :
          [](((i <= Len(task)) /\ task[i].st = "download")
                => <>((i <= Len(task)) /\ task[i].st # "download"))
    /\ <>(mpc \in {"returned", "rejected"})

\* the {url, error} entries of a run: the downloads and uploads that failed
Failures(st) == Range(st.errors)

Counters(st) == <<st.total, st.downloaded, st.uploaded, st.skipped, st.failed>>

\* C27: the result of a run does not depend on the order in which the
\* attachments of a chunk complete: two executions on the same input in
\* which the same downloads and uploads fail end with the same URL map (as
\* a set of key/value pairs), the same stats counters and, for every page
\* content, the same content after the final URL pass.
C27_OrderIndependent ==
    (first.run = 2 /\ mpc = "returned" /\ Failures(stats) = Failures(first.stats)) =>
        /\ Range(urlMap) = Range(first.urlMap)
        /\ Counters(stats) = Counters(first.stats)
        /\ \A k \in 1..Len(atts) :
              updateContentUrls(urlMap, atts[k].url)
                 = updateContentUrls(first.urlMap, atts[k].url)

\* C28: attachments with distinct source URLs are stored under distinct
\* local paths: no two of them are being downloaded to the same local file
\* at the same time, none is skipped as existing because of a file that was
\* not in the download directory when migrate() was called, and after
\* migrate() no two distinct source URLs have the same new URL.
C28_DistinctLocalPaths ==
    \A i \in 1..Len(task), j \in 1..Len(task) :
        (i # j /\ atts[i].url # atts[j].url) =>
            /\ ~(/\ task[i].st = "download" /\ task[j].st = "download"
                 /\ task[i].path = task[j].path)
            /\ task[i].out = "existed" => task[i].path \in first.disk
            /\ (mpc = "returned" /\ {atts[i].url, atts[j].url} \subseteq MapKeys(urlMap))
                  => MapValue(urlMap, atts[i].url) # MapValue(urlMap, atts[j].url)

\* C29: in the output of a run the menuSection of every PageDocument, page
\* or post, is null or the id of a MenuSection the run created.
C29_MenuSectionExists ==
    AfterMenu =>
        \A k \in 1..Len(pages) :
            \/ pages[k].menuSection = NoSection
            \/ \E j \in 1..Len(menuSections) : menuSections[j].id = pages[k].menuSection

(***************************************************************************)
(* PageEditor of the admin pages: the dirty tracking of the form while the *)
(* saves of savePage are awaited.  call holds the editor object, ret the   *)
(* document of the page in the pages collection (none before the first     *)
(* write).                                                                 *)
(***************************************************************************)
MaxInFlight == 2

FormTitles == {"", "T"}

FormContents == {"", "a", "b"}

FormFields == {"title", "content"}

NewForm == [title |-> "", content |-> ""]

FormValues(field) == IF field = "title" THEN FormTitles ELSE FormContents

RemoveAt(s, k) == [j \in 1..(Len(s) - 1) |-> IF j < k THEN s[j] ELSE s[j + 1]]

\* getFormData(): the values of the form as they are now
getFormData(ed) == [title |-> ed.form.title, content |-> ed.form.content]

\* savePage(status, silent) up to its first await: the form is read, an
\* empty title returns at once, the buttons are disabled and the write of
\* formData is issued (add for a new page, update otherwise)
savePage(ed, status) ==
    LET formData == getFormData(ed) @@ [status |-> status]
    IN  IF formData.title = ""
        THEN ed
        ELSE [ed EXCEPT !.disabled = TRUE,
                        !.saves = Append(@, [formData |-> formData,
                                             at |-> IF ed.isNew THEN "add" ELSE "update"])]

\* init(): a new page with the empty form, or an existing page whose
\* document populateForm has put into the form (isDirty reset to false)
InitEditor ==
    /\ \/ /\ call = [fn |-> "PageEditor", isNew |-> TRUE, isDirty |-> FALSE,
                     form |-> NewForm, disabled |-> FALSE, saves |-> <<>>]
          /\ ret = <<>>
       \/ \E content \in FormContents, status \in {"draft", "published"} :
             /\ call = [fn |-> "PageEditor", isNew |-> FALSE, isDirty |-> FALSE,
                        form |-> [title |-> "T", content |-> content],
                        disabled |-> FALSE, saves |-> <<>>]
             /\ ret = <<[title |-> "T", content |-> content, status |-> status]>>
    /\ first = NoRun
    /\ mpc = "idle"
    /\ mopts = NewOptions(FALSE, 0, TRUE)
    /\ storage = FALSE
    /\ stats = NewStats
    /\ urlMap = <<>>
    /\ atts = <<>>
    /\ task = <<>>
    /\ cur = 0
    /\ disk = {}
    /\ net = [get |-> {}, put |-> {}]
    /\ pc = "library"
    /\ argv = [dryRun |-> TRUE, downloadMedia |-> FALSE, uploadMedia |-> FALSE]
    /\ env = [input |-> "none", channel |-> FALSE, firebase |-> "nocreds"]
    /\ wpData = NoData
    /\ dryRun = TRUE
    /\ fb = [app |-> FALSE, db |-> FALSE]
    /\ mm = FALSE
    /\ pages = <<>>
    /\ menuSections = <<>>
    /\ out = NoOutput
    /\ store = EmptyStore
    /\ pos = 0
    /\ exit = "running"

\* an input event of the title field or an update of the editor: the value
\* changes and markDirty() runs
markDirty(field, v) ==
    /\ call.fn = "PageEditor"
    /\ v # call.form[field]
    /\ call' = [call EXCEPT !.form[field] = v, !.isDirty = TRUE]
    /\ UNCHANGED <<ret, first, mvars, ovars>>

\* a click on the save or the publish button (a disabled button gets none)
SaveClicked(status) ==
    /\ call.fn = "PageEditor"
    /\ ~call.disabled
    /\ Len(call.saves) < MaxInFlight
    /\ call' = savePage(call, status)
    /\ UNCHANGED <<ret, first, mvars, ovars>>

\* the callback of setInterval in initAutoSave
AutoSave ==
    /\ call.fn = "PageEditor"
    /\ Len(call.saves) < MaxInFlight
    /\ call' = IF call.isDirty /\ ~call.isNew THEN savePage(call, "draft") ELSE call
    /\ UNCHANGED <<ret, first, mvars, ovars>>

\* await db.collection('pages').add / .doc(pageId).update resolves: the
\* document holds formData (the writes of one client are applied in the
\* order they were issued), a new page stops being new, and the save goes
\* on to await logActivity
WriteResolves(k) ==
    /\ call.fn = "PageEditor"
    /\ k \in 1..Len(call.saves)
    /\ call.saves[k].at \in {"add", "update"}
    /\ \A j \in 1..(k - 1) : call.saves[j].at = "log"
    /\ ret' = <<call.saves[k].formData>>
    /\ call' = [call EXCEPT !.isNew = FALSE, !.saves[k].at = "log"]
    /\ UNCHANGED <<first, mvars, ovars>>

\* the write rejects: catch shows the toast, finally enables the buttons
WriteRejects(k) ==
    /\ call.fn = "PageEditor"
    /\ k \in 1..Len(call.saves)
    /\ call.saves[k].at \in {"add", "update"}
    /\ call' = [call EXCEPT !.disabled = FALSE, !.saves = RemoveAt(@, k)]
    /\ UNCHANGED <<ret, first, mvars, ovars>>

\* await Dashboard?.logActivity(...) settles (it catches its own errors):
\* this.isDirty = false, then finally enables the buttons
SaveCompletes(k) ==
    /\ call.fn = "PageEditor"
    /\ k \in 1..Len(call.saves)
    /\ call.saves[k].at = "log"
    /\ call' = [call EXCEPT !.isDirty = FALSE, !.disabled = FALSE,
                            !.saves = RemoveAt(@, k)]
    /\ UNCHANGED <<ret, first, mvars, ovars>>

NextEditor ==
    \/ \E field \in FormFields : \E v \in FormValues(field) : markDirty(field, v)
    \/ \E status \in {"draft", "published"} : SaveClicked(status)
    \/ AutoSave
    \/ \E k \in 1..MaxInFlight : WriteResolves(k)
    \/ \E k \in 1..MaxInFlight : WriteRejects(k)
    \/ \E k \in 1..MaxInFlight : SaveCompletes(k)

SpecEditor == InitEditor /\ [][NextEditor]_vars

\* the form holds what the store holds: the document last written has the
\* title and the content of the form (a page never written: the empty form)
FormIsStored ==
    IF ret = <<>>
    THEN call.form = NewForm
    ELSE /\ ret[1].title = call.form.title
         /\ ret[1].content = call.form.content

\* C30: after any interleaving of edits and saves of the page editor, isDirty
\* is false only if the content last written to the store equals the current
\* content of the form: an edit made while a save is in flight stays dirty.
C30_DirtyUntilStored ==
    (call.fn = "PageEditor" /\ ~call.isDirty) => FormIsStored

====
